---- MODULE Spec2Model ----
(***************************************************************************)
(* Model of the analysis pipeline of yt-mcp: ChainProcessor.analyze_video  *)
(* (src/pipeline/chain.py) with its collaborators seen through the calls   *)
(* the orchestrator makes, the tenacity retry wrapper around them, the     *)
(* StepLogger, and the question ranker of CriticalThinkingEvaluator.       *)
(* YouTubeExtractor.fetch_comments and fetch_transcript                    *)
(* (src/pipeline/extractors.py) and get_pipeline_config (src/config.py)    *)
(* are modelled on their own, each with its specification.                 *)
(*                                                                         *)
(* Python values are rendered as follows.  Optional[T] is a sequence of    *)
(* length at most one (None is <<>>).  str is a TLA+ string.  An exception *)
(* is a record [type, msg, cause] where cause is the optional __cause__.   *)
(***************************************************************************)
EXTENDS Integers, Sequences, FiniteSets, TLC

VARIABLES
    config,        \* PipelineConfig of the run (the seven toggles, the question limit)
    pc,            \* position of analyze_video
    context,       \* Optional[ProcessingContext]
    current_step,  \* StepLogger.current_step, Optional[str]
    calls,         \* backend invocations made so far, in order (one entry per attempt)
    result,        \* Optional[AnalysisResult] returned by analyze_video
    exc,           \* Optional exception that left analyze_video
    evaluator,     \* a call of the evaluator's ranking and scoring on given standards
    extractor,     \* a call of fetch_comments or fetch_transcript of YouTubeExtractor
    pipeline_config, \* a call of get_pipeline_config: its arguments and what it returned
    step_logger    \* a StepLogger timing the steps of the extraction stage

vars == <<config, pc, context, current_step, calls, result, exc, evaluator, extractor,
         pipeline_config, step_logger>>

----------------------------------------------------------------------------
(* Bounds of the model *)

MaxWords == 1        \* words of a fetched transcript
MaxComments == 1     \* comments returned by fetch_comments
MaxFragments == 2    \* fragments yielded by a summary stream
MaxQuestions == 2    \* follow-up questions of one standard in a backend response
MaxSelected == 2     \* config.num_selected_questions of the modelled runs
MaxRetries == 2      \* transient backend failures (attempts that are retried with success) in a run
MaxStandards == 2    \* standards of a list given to the ranker
MaxCandidates == 2   \* follow-up questions over all standards of a list given to the ranker
MaxLimit == 2        \* max_comments and max_total_word_length given to fetch_comments
MaxPages == 2        \* pages of comment threads the backend holds for a video
MaxPageItems == 2    \* comment threads on one page
MaxTextWords == 2    \* words of a comment text, and of a transcript an extraction method yields
MaxOverrides == 2    \* arguments supplied to get_pipeline_config
MaxClock == 2        \* latest reading of the local clock, in seconds
MaxPerCategory == 2  \* follow-up questions of each of two standards whose order is examined

(* Program constants *)

StopAfterAttempt == 3   \* tenacity stop_after_attempt(3)
MaxRating == 10         \* CriticalThinkingStandard.rating le=10
PageSizeLimit == 100    \* maxResults=min(100, ...) of a commentThreads request

----------------------------------------------------------------------------
(* Python helpers *)

None == <<>>
Some(v) == <<v>>
IsNone(o) == Len(o) = 0

\* truthiness of an Optional[str]: None and "" are falsy
Truthy(o) == Len(o) = 1 /\ o[1] # ""

PyBool(b) == IF b THEN "True" ELSE "False"

\* a text of n words, as the extractor builds it with " ".join
RECURSIVE TextOfWords(_)
TextOfWords(n) == IF n = 0 THEN "" ELSE IF n = 1 THEN "w" ELSE TextOfWords(n - 1) \o " w"

\* len(s.split()) for the generated texts; these contain no white space
SplitLen(s) == IF s = "" THEN 0 ELSE 1

RECURSIVE Join(_)
Join(chunks) == IF chunks = <<>> THEN "" ELSE Head(chunks) \o Join(Tail(chunks))

RECURSIVE Repeat(_, _)
Repeat(x, n) == IF n = 0 THEN <<>> ELSE <<x>> \o Repeat(x, n - 1)

----------------------------------------------------------------------------
(* Exceptions *)

Exception(t, m, c) == [type |-> t, msg |-> m, cause |-> c]

\* str(e); tenacity's RetryError prints its last attempt, not the message
Str(e) ==
    IF e.type = "RetryError"
    THEN "RetryError[<Future state=finished raised " \o e.cause[1].type \o ">]"
    ELSE e.msg

\* tenacity: raise retry_exc from fut.exception()
RetryError(last) == Exception("RetryError", "", Some(last))

APIError(message) == Exception("APIError", message, None)

\* mutant of PipelineError: raised without `from e`
PipelineErrorNoCause(e) ==
    Exception("PipelineError", "Analysis pipeline failed: " \o Str(e), None)

\* raise PipelineError(f"Analysis pipeline failed: {e}") from e
PipelineError(e) == Exception("PipelineError", "Analysis pipeline failed: " \o Str(e), Some(e))

\* messages of the failures the backends report
BackendErrors == {"quota exceeded"}

----------------------------------------------------------------------------
(* Data model *)

\* the configurations of the modelled runs: every combination of the toggles
PipelineConfig ==
    [enable_transcript : BOOLEAN, enable_comments : BOOLEAN,
     enable_transcript_processing : BOOLEAN, enable_comments_processing : BOOLEAN,
     enable_synthesis : BOOLEAN, enable_evaluation : BOOLEAN,
     enable_audio_download : BOOLEAN, num_selected_questions : {MaxSelected}]

TranscriptData(text, word_count, available, error_message) ==
    [text |-> text, word_count |-> word_count, available |-> available,
     error_message |-> error_message]

UnavailableTranscript == TranscriptData(None, 0, FALSE, None)

CommentsData(comments) ==
    [comments |-> comments, total_count |-> Len(comments),
     processed_count |-> Len(comments), total_word_count |-> Len(comments)]

EmptyComments ==
    [comments |-> <<>>, total_count |-> 0, processed_count |-> 0, total_word_count |-> 0]

ProcessingStep(step_name, input_data, output_data, success, error_message) ==
    [step_name |-> step_name, input_data |-> input_data, output_data |-> output_data,
     success |-> success, error_message |-> error_message]

CriticalThinkingAssessment(standards, selected_questions, impact_scores) ==
    [standards |-> standards, selected_questions |-> selected_questions,
     impact_scores |-> impact_scores]

EmptyAssessment == CriticalThinkingAssessment(<<>>, <<>>, <<>>)

ProcessingContext(metadata) ==
    [video_metadata |-> metadata, transcript |-> None, comments |-> None,
     transcript_summary |-> None, comments_summary |-> None,
     compressed_summary |-> None, critical_assessment |-> None,
     processing_steps |-> <<>>]

AnalysisResult(c) ==
    [video_metadata |-> c.video_metadata, transcript |-> c.transcript,
     comments |-> c.comments, processing_steps |-> c.processing_steps,
     transcript_summary |-> c.transcript_summary,
     comments_summary |-> c.comments_summary,
     compressed_summary |-> c.compressed_summary,
     critical_assessment |-> c.critical_assessment]

FallbackSummary == "Analysis completed without content synthesis."

----------------------------------------------------------------------------
(* CriticalThinkingEvaluator: the question ranker and the impact scores *)

CriticalThinkingStandard(name, rating, followup_questions) ==
    [name |-> name, evaluation |-> "e", rating |-> rating,
     followup_questions |-> followup_questions]

\* mutant of ValidStandard: the upper bound of the rating is not checked
ValidStandardNoUpperBound(std) == std.rating >= 0

\* Field(ge=0, le=10) of CriticalThinkingStandard.rating
ValidStandard(std) == std.rating >= 0 /\ std.rating <= MaxRating

\* mutant of StandardRows: the question is stored with its category in front
StandardRowsPrefixed(std) ==
    [i \in 1..Len(std.followup_questions) |->
        [standard_name |-> std.name,
         question |-> std.name \o ": " \o std.followup_questions[i],
         rating |-> std.rating]]

\* the rows one standard contributes to questions_data
StandardRows(std) ==
    [i \in 1..Len(std.followup_questions) |->
        [standard_name |-> std.name, question |-> std.followup_questions[i],
         rating |-> std.rating]]

RECURSIVE QuestionsData(_)
QuestionsData(standards) ==
    IF standards = <<>> THEN <<>>
    ELSE StandardRows(Head(standards)) \o QuestionsData(Tail(standards))

\* df["standard_name"].value_counts()[category]
CategoryCount(rows, category) ==
    Cardinality({i \in 1..Len(rows) : rows[i].standard_name = category})

\* impact_score = (10 - rating) * 10 + 50 / count, kept as the fraction num / den
WithImpactScore(rows) ==
    [i \in 1..Len(rows) |->
        [standard_name |-> rows[i].standard_name, question |-> rows[i].question,
         rating |-> rows[i].rating,
         num |-> (10 - rows[i].rating) * 10 * CategoryCount(rows, rows[i].standard_name) + 50,
         den |-> CategoryCount(rows, rows[i].standard_name)]]

ScoreGreater(a, b) == a.num * b.den > b.num * a.den

Remove(rows, i) == SubSeq(rows, 1, i - 1) \o SubSeq(rows, i + 1, Len(rows))

\* df.sort_values("impact_score", ascending=False): the default kind is
\* quicksort, which is not stable, so rows of equal score come in any order.
\* Every order that is descending in the score: a row no other row beats comes
\* first, the others follow in any descending order.
RECURSIVE SortValues(_)
SortValues(rows) ==
    IF rows = <<>> THEN {<<>>}
    ELSE UNION {{<<rows[i]>> \o rest : rest \in SortValues(Remove(rows, i))} :
                    i \in {k \in 1..Len(rows) :
                              \A j \in 1..Len(rows) : ~ScoreGreater(rows[j], rows[k])}}

InSeq(x, s) == \E i \in 1..Len(s) : s[i] = x

\* mutant of FirstPass: the first pass does not look at the limit
RECURSIVE FirstPassNoLimit(_, _, _, _)
FirstPassNoLimit(rows, selected, covered, num_questions) ==
    IF rows = <<>> THEN selected
    ELSE IF Head(rows).standard_name \notin covered
         THEN FirstPassNoLimit(Tail(rows), Append(selected, Head(rows).question),
                               covered \cup {Head(rows).standard_name}, num_questions)
         ELSE FirstPassNoLimit(Tail(rows), selected, covered, num_questions)

\* mutant of FirstPass: the first pass does not look at the categories
RECURSIVE FirstPassAnyCategory(_, _, _, _)
FirstPassAnyCategory(rows, selected, covered, num_questions) ==
    IF rows = <<>> THEN selected
    ELSE IF Len(selected) < num_questions
         THEN FirstPassAnyCategory(Tail(rows), Append(selected, Head(rows).question),
                                   covered \cup {Head(rows).standard_name}, num_questions)
         ELSE FirstPassAnyCategory(Tail(rows), selected, covered, num_questions)

\* first pass: one question from each category not yet covered
RECURSIVE FirstPass(_, _, _, _)
FirstPass(rows, selected, covered, num_questions) ==
    IF rows = <<>> THEN selected
    ELSE IF Head(rows).standard_name \notin covered /\ Len(selected) < num_questions
         THEN FirstPass(Tail(rows), Append(selected, Head(rows).question),
                        covered \cup {Head(rows).standard_name}, num_questions)
         ELSE FirstPass(Tail(rows), selected, covered, num_questions)

\* mutant of SecondPass: the second pass stops at the first row already selected
RECURSIVE SecondPassStopsEarly(_, _, _)
SecondPassStopsEarly(rows, selected, num_questions) ==
    IF rows = <<>> THEN selected
    ELSE IF InSeq(Head(rows).question, selected) THEN selected
    ELSE IF Len(selected) < num_questions
         THEN SecondPassStopsEarly(Tail(rows), Append(selected, Head(rows).question),
                                   num_questions)
         ELSE SecondPassStopsEarly(Tail(rows), selected, num_questions)

\* mutant of SecondPass: the second pass scans the rows from the bottom
RECURSIVE SecondPassFromBottom(_, _, _)
SecondPassFromBottom(rows, selected, num_questions) ==
    IF rows = <<>> THEN selected
    ELSE LET last == rows[Len(rows)]
             above == SubSeq(rows, 1, Len(rows) - 1)
         IN IF ~InSeq(last.question, selected) /\ Len(selected) < num_questions
            THEN SecondPassFromBottom(above, Append(selected, last.question), num_questions)
            ELSE SecondPassFromBottom(above, selected, num_questions)

\* second pass: the remaining questions, highest impact first
RECURSIVE SecondPass(_, _, _)
SecondPass(rows, selected, num_questions) ==
    IF rows = <<>> THEN selected
    ELSE IF ~InSeq(Head(rows).question, selected) /\ Len(selected) < num_questions
         THEN SecondPass(Tail(rows), Append(selected, Head(rows).question), num_questions)
         ELSE SecondPass(Tail(rows), selected, num_questions)

\* selected[:num_questions]
SliceTo(s, n) ==
    IF n >= 0 THEN SubSeq(s, 1, IF n < Len(s) THEN n ELSE Len(s))
    ELSE SubSeq(s, 1, IF Len(s) + n > 0 THEN Len(s) + n ELSE 0)

\* df after sort_values, or no frame when questions_data is empty: one frame
\* per order the sort can return
SortedQuestions(standards) ==
    IF QuestionsData(standards) = <<>> THEN {<<>>}
    ELSE SortValues(WithImpactScore(QuestionsData(standards)))

\* the two passes over the sorted frame and the final slice; without
\* questions the function has returned [] before
SelectFrom(df, num_questions) ==
    SliceTo(SecondPass(df, FirstPass(df, <<>>, {}, num_questions), num_questions),
            num_questions)

\* the selections _select_best_questions can return, one per order of the sort
SelectBestQuestions(standards, num_questions) ==
    {SelectFrom(df, num_questions) : df \in SortedQuestions(standards)}

\* mutant of CalculateImpactScores: the score is the rating scaled to 100
CalculateImpactScoresOfRating(standards) ==
    [n \in {standards[i].name : i \in 1..Len(standards)} |->
        LET last == CHOOSE i \in 1..Len(standards) :
                        /\ standards[i].name = n
                        /\ \A j \in 1..Len(standards) : standards[j].name = n => j <= i
        IN standards[last].rating * 10]

\* scores[standard.name] = (10 - rating) * 10; a later standard of the same
\* name overwrites an earlier one
CalculateImpactScores(standards) ==
    [n \in {standards[i].name : i \in 1..Len(standards)} |->
        LET last == CHOOSE i \in 1..Len(standards) :
                        /\ standards[i].name = n
                        /\ \A j \in 1..Len(standards) : standards[j].name = n => j <= i
        IN (10 - standards[last].rating) * 10]

----------------------------------------------------------------------------
(* What the collaborators can answer *)

VideoMetadata == [video_id |-> "vid"]

\* fetch_transcript: a transcript of MaxWords words, or an unavailable one
Transcripts ==
    {TranscriptData(Some(TextOfWords(n)), n, TRUE, None) : n \in {MaxWords}}
    \cup {TranscriptData(None, 0, FALSE, Some("Transcripts are disabled for this video"))}

\* mutant of FailedTranscript: the failure is not reported
FailedTranscriptNoMessage(m) == TranscriptData(None, 0, FALSE, None)

\* fetch_transcript when every extraction method raised: the failure is
\* caught in the extractor and reported in the returned object
FailedTranscript(m) ==
    TranscriptData(None, 0, FALSE,
        Some("All transcript extraction methods failed. YT-DLP: failed, YouTube-API: " \o m))

Comment == [comment |-> "w", like_count |-> 0, replies |-> <<>>]

\* fetch_comments: no comment or MaxComments comments, of one word each
CommentsAnswers == {CommentsData(Repeat(Comment, k)) : k \in {0, MaxComments}}

\* the fragment sequences a summary stream can yield: none or n fragments,
\* the i-th fragment of a stream being its tag followed by i
Streams(tag, n) == {[i \in 1..k |-> tag \o ToString(i)] : k \in {0, n}}

\* response.text of the compression backend
CompressedTexts == {"z"}

Questions(k) == [i \in 1..k |-> "q" \o ToString(i)]

\* the standards lists the evaluation backend can answer with
EvaluationResponses ==
    {<<>>}
    \cup {<<CriticalThinkingStandard("Clarity", r, Questions(MaxQuestions))>> :
                r \in {0 - 1, 3, MaxRating + 1}}
    \cup {<<CriticalThinkingStandard("Clarity", 5, Questions(k)),
            CriticalThinkingStandard("Accuracy", 5, Questions(1))>> : k \in {MaxQuestions}}

ValidResponse(resp) == \A i \in 1..Len(resp) : ValidStandard(resp[i])

(* the standards lists and limits given to the ranker on its own *)

StandardNames == {"Clarity", "Accuracy"}

Ratings == {0, MaxRating}

QuestionTexts == {"q1", "q2"}

QuestionLists(n) == UNION {[1..k -> QuestionTexts] : k \in 0..n}

\* the valid standards with at most q follow-up questions
StandardsWith(q) ==
    {CriticalThinkingStandard(name, rating, questions) :
        name \in StandardNames, rating \in Ratings, questions \in QuestionLists(q)}

\* the lists of k standards with at most q follow-up questions in all
RECURSIVE StandardsLists(_, _)
StandardsLists(k, q) ==
    IF k = 0 THEN {<<>>}
    ELSE UNION {{<<std>> \o rest :
                    rest \in StandardsLists(k - 1, q - Len(std.followup_questions))} :
                std \in StandardsWith(q)}

RankerInputs == UNION {StandardsLists(k, MaxCandidates) : k \in 0..MaxStandards}

\* num_questions is an int without constraint
Limits == (0 - 1)..(MaxSelected + 1)

\* df is the sorted frame of the call, once _select_best_questions has run
EvaluatorState(p, standards, num_questions, selected_questions, impact_scores) ==
    [pc |-> p, standards |-> standards, num_questions |-> num_questions, df |-> <<>>,
     selected_questions |-> selected_questions, impact_scores |-> impact_scores]

\* no call of the evaluator on its own is under way
EvaluatorIdle == EvaluatorState("idle", <<>>, 0, <<>>, <<>>)

----------------------------------------------------------------------------
(* YouTubeExtractor.fetch_comments and fetch_transcript on their own: the  *)
(* answers of their backends and the state of a call                       *)

\* len(text.split()) of a text built with " ".join
WordCount(text) == CHOOSE n \in 0..MaxTextWords : TextOfWords(n) = text

\* a comment as the paging loop builds it from an item of a page
CommentOf(text) == [comment |-> text, like_count |-> 0, replies |-> <<>>]

\* CommentsData(comments=comments, total_count=len(comments),
\*              processed_count=len(comments), total_word_count=total_word_count)
CommentsDataOf(comments, total_word_count) ==
    [comments |-> comments, total_count |-> Len(comments),
     processed_count |-> Len(comments), total_word_count |-> total_word_count]

\* the comment texts of a page of at most n items
ItemLists(n) ==
    UNION {[1..k -> {TextOfWords(w) : w \in 0..MaxTextWords}] : k \in 0..n}

\* the responses of commentThreads().list(maxResults=max_results) to the
\* request-th request of a call: at most max_results items, and a next page
\* token while the backend holds a further page
CommentThreadsResponses(max_results, request) ==
    {[items |-> items, nextPageToken |-> token] :
        items \in ItemLists(IF max_results < MaxPageItems THEN max_results
                            ELSE MaxPageItems),
        token \in {None} \cup (IF request < MaxPages
                               THEN {Some("page" \o ToString(request + 1))}
                               ELSE {})}

\* a call fetch_comments(video_id, max_comments, max_total_word_length) at the
\* test of its while loop; fetched holds the comment texts of the pages
\* received so far, in order, and rejected tells whether the word limit has
\* turned a comment down
FetchCommentsState(max_comments, max_total_word_length) ==
    [method |-> "fetch_comments", pc |-> "while",
     max_comments |-> max_comments, max_total_word_length |-> max_total_word_length,
     comments |-> <<>>, total_word_count |-> 0, page_token |-> None,
     requests |-> 0, fetched |-> <<>>, rejected |-> FALSE,
     error |-> None, returned |-> None, raised |-> None]

\* the messages of the exceptions get_transcript raises besides
\* TranscriptsDisabled
NoTranscriptsFound == "No transcripts were found for any of the requested language codes"

TranscriptApiErrors == BackendErrors \cup {NoTranscriptsFound}

\* "No transcripts were found" in error_msg
MentionsNoTranscripts(error_msg) == error_msg = NoTranscriptsFound

\* the texts an extraction method can yield, the empty one included
TranscriptTexts == {TextOfWords(n) : n \in 0..MaxTextWords}

\* TranscriptData(text=transcript_text, word_count=len(transcript_text.split()),
\*                available=True)
AvailableTranscript(text) == TranscriptData(Some(text), WordCount(text), TRUE, None)

DisabledTranscript ==
    TranscriptData(None, 0, FALSE, Some("Transcripts are disabled for this video"))

\* a call fetch_transcript(video_id) before its first extraction method;
\* tried holds the outcome of each method tried so far
FetchTranscriptState ==
    [method |-> "fetch_transcript", pc |-> "ytdlp", tried |-> <<>>,
     error_msg |-> None, returned |-> None, raised |-> None]

\* no call of the extractor on its own is under way
ExtractorIdle == [method |-> "idle", pc |-> "idle", returned |-> None, raised |-> None]

----------------------------------------------------------------------------
(* get_pipeline_config: its parameters, the defaults of PipelineConfig and *)
(* the state of a call.  A temperature is given in hundredths.             *)

DefaultPipelineConfig ==
    [max_comments |-> 5000, max_total_word_length |-> 80000,
     openai_model |-> "gpt-5", openai_temperature |-> 35,
     gemini_model |-> "gemini-1.5-flash", gemini_temperature |-> 50,
     num_selected_questions |-> 6,
     enable_transcript |-> TRUE, enable_comments |-> TRUE,
     enable_transcript_processing |-> TRUE, enable_comments_processing |-> TRUE,
     enable_synthesis |-> TRUE, enable_evaluation |-> TRUE,
     enable_audio_download |-> FALSE]

ParamNames == DOMAIN DefaultPipelineConfig

ToggleNames ==
    {"enable_transcript", "enable_comments", "enable_transcript_processing",
     "enable_comments_processing", "enable_synthesis", "enable_evaluation",
     "enable_audio_download"}

ModelNames == {"openai_model", "gemini_model"}

\* the values an argument of get_pipeline_config is given: None, or a value
\* of the type of the parameter, False and 0 among them
ArgValues(name) ==
    {None} \cup
    (IF name \in ToggleNames THEN {Some(FALSE), Some(TRUE)}
     ELSE IF name \in ModelNames THEN {Some("gpt-4o")}
     ELSE {Some(0), Some(1000)})

\* the keyword arguments that name the given parameters
RECURSIVE KwargsOver(_)
KwargsOver(names) ==
    IF names = {} THEN {<<>>}
    ELSE LET name == CHOOSE n \in names : TRUE
         IN {[n \in names |-> IF n = name THEN value ELSE kwargs[n]] :
                kwargs \in KwargsOver(names \ {name}), value \in ArgValues(name)}

\* the keyword arguments of a call: at most MaxOverrides parameters are named
Kwargs ==
    UNION {KwargsOver(names) :
              names \in {ns \in SUBSET ParamNames : Cardinality(ns) <= MaxOverrides}}

\* the value of a parameter inside the call: None unless the caller gave one
Param(kwargs, name) == IF name \in DOMAIN kwargs THEN kwargs[name] ELSE None

ConfigCall(kwargs) == [pc |-> "get_pipeline_config", kwargs |-> kwargs, returned |-> None]

\* no call of get_pipeline_config on its own is under way
NoConfigCall == [pc |-> "idle", kwargs |-> <<>>, returned |-> None]

\* StepLogger.__init__, no step being timed
StepLoggerIdle ==
    [pc |-> "idle", current_step |-> None, step_start_time |-> None,
     context |-> None, processing_time |-> <<>>]

----------------------------------------------------------------------------
(* ChainProcessor.analyze_video *)

Init ==
    /\ config \in PipelineConfig
    /\ pc = "extract_video_id"
    /\ context = None
    /\ current_step = None
    /\ calls = <<>>
    /\ result = None
    /\ exc = None
    /\ step_logger = StepLoggerIdle
    /\ evaluator = EvaluatorIdle
    /\ extractor = ExtractorIdle
    /\ pipeline_config = NoConfigCall

ctx == context[1]

\* mutant of After: the evaluation is run before the synthesis
AfterEvaluationFirst(p) ==
    CASE p = "extract_video_id" -> "extract_metadata"
      [] p = "extract_metadata" -> "extract_transcript"
      [] p = "extract_transcript" -> "extract_comments"
      [] p = "extract_comments" -> "process_transcript"
      [] p = "process_transcript" -> "process_comments"
      [] p = "process_comments" -> "evaluate_critical_thinking"
      [] p = "evaluate_critical_thinking" -> "synthesize_content"
      [] p = "synthesize_content" -> "create_result"
      [] p = "create_result" -> "returned"

\* the order in which analyze_video runs its sub-steps
After(p) ==
    CASE p = "extract_video_id" -> "extract_metadata"
      [] p = "extract_metadata" -> "extract_transcript"
      [] p = "extract_transcript" -> "extract_comments"
      [] p = "extract_comments" -> "process_transcript"
      [] p = "process_transcript" -> "process_comments"
      [] p = "process_comments" -> "synthesize_content"
      [] p = "synthesize_content" -> "evaluate_critical_thinking"
      [] p = "evaluate_critical_thinking" -> "create_result"
      [] p = "create_result" -> "returned"

\* mutant of Raise: the handler lets the exception through as it is
RaiseUnwrapped(e) ==
    /\ exc' = Some(e)
    /\ pc' = "raised"

\* except Exception as e: raise PipelineError(...) from e
Raise(e) ==
    /\ exc' = Some(PipelineError(e))
    /\ pc' = "raised"

\* mutant of StartStep: the step is not registered with the logger
StartStepSkipped(step_name) == UNCHANGED current_step

\* StepLogger.start_step: self.current_step = step_name
StartStep(step_name) == current_step' = Some(step_name)

\* mutant of EndStep: the logger keeps the step it was given
EndStepKeepsStep == UNCHANGED current_step

\* StepLogger.end_step: self.current_step = None
EndStep == current_step' = None

\* one entry of the call log: the backend, whether the attempt raised, and
\* the fragments the caller received from it (none unless it is a stream)
Call(name, raised) == [name |-> name, raised |-> raised, yielded |-> <<>>]

\* a call of a summary stream: the for loop of the caller has appended the
\* fragments of `chunks` before the stream ended or raised
StreamCall(name, raised, chunks) == [Call(name, raised) EXCEPT !.yielded = chunks]

\* a call under @retry: n attempts are made, all but the last raise, the
\* last one raises iff the call as a whole fails
Attempts(name, n, ok) == Repeat(Call(name, TRUE), n - 1) \o <<Call(name, ~ok)>>

\* the attempts that raised and were followed by a successful attempt
TransientFailures ==
    Cardinality({i \in 1..Len(calls) :
        /\ calls[i].raised
        /\ \E j \in (i + 1)..Len(calls) : calls[j].name = calls[i].name /\ ~calls[j].raised})

\* a retried call may succeed at its n-th attempt
MaySucceedAt(n) == n \in 1..StopAfterAttempt /\ TransientFailures + (n - 1) <= MaxRetries

\* mutant of WithStep: the list is assigned instead of appended to
WithStepAssigned(c, step) == [c EXCEPT !.processing_steps = <<step>>]

\* context.processing_steps.append(...)
WithStep(c, step) == [c EXCEPT !.processing_steps = Append(@, step)]

(* the conditions of the gated sub-steps *)

\* mutant of TranscriptProcessingGate: a downloaded audio track takes the
\* place of the transcript
TranscriptProcessingGateAudio(cfg, c) ==
    /\ cfg.enable_transcript_processing
    /\ ~cfg.enable_audio_download
    /\ ~IsNone(c.transcript)
    /\ c.transcript[1].available

TranscriptProcessingGate(cfg, c) ==
    /\ cfg.enable_transcript_processing
    /\ ~IsNone(c.transcript)
    /\ c.transcript[1].available

CommentsProcessingGate(cfg, c) ==
    /\ cfg.enable_comments_processing
    /\ ~IsNone(c.comments)
    /\ c.comments[1].total_count > 0

SynthesisEnabled(cfg) == cfg.enable_synthesis

\* mutant of EvaluationEnabled: the gate tests the wrong toggle
EvaluationEnabledWrongToggle(cfg) == cfg.enable_synthesis

EvaluationEnabled(cfg) == cfg.enable_evaluation

(* the context after each outcome of a sub-step *)

TranscriptFetched(c, t) ==
    WithStep([c EXCEPT !.transcript = Some(t)],
        ProcessingStep("extract_transcript", c.video_metadata.video_id,
            "Transcript available: " \o PyBool(t.available) \o ", Words: "
                \o ToString(t.word_count),
            TRUE, None))

\* mutant of TranscriptFetchFailed: the handler forgets the substitute
TranscriptFetchFailedNoSubstitute(c, e) ==
    WithStep(c,
        ProcessingStep("extract_transcript", c.video_metadata.video_id, "",
            FALSE, Some(Str(e))))

TranscriptFetchFailed(c, e) ==
    WithStep([c EXCEPT !.transcript = Some(UnavailableTranscript)],
        ProcessingStep("extract_transcript", c.video_metadata.video_id, "",
            FALSE, Some(Str(e))))

\* mutant of CommentsFetched: the comments sub-step resets the transcript
CommentsFetchedResetsTranscript(c, cd) ==
    WithStep([c EXCEPT !.comments = Some(cd), !.transcript = None],
        ProcessingStep("extract_comments", c.video_metadata.video_id,
            "Comments: " \o ToString(cd.total_count) \o ", Words: "
                \o ToString(cd.total_word_count),
            TRUE, None))

CommentsFetched(c, cd) ==
    WithStep([c EXCEPT !.comments = Some(cd)],
        ProcessingStep("extract_comments", c.video_metadata.video_id,
            "Comments: " \o ToString(cd.total_count) \o ", Words: "
                \o ToString(cd.total_word_count),
            TRUE, None))

CommentsFetchFailed(c, e) ==
    WithStep([c EXCEPT !.comments = Some(EmptyComments)],
        ProcessingStep("extract_comments", c.video_metadata.video_id, "",
            FALSE, Some(Str(e))))

\* mutant of CommentsDisabled: the else branch is missing
CommentsDisabledUnset(c) == c

\* mutant of CommentsDisabled: the else branch records a step
CommentsDisabledRecorded(c) ==
    WithStep([c EXCEPT !.comments = Some(EmptyComments)],
        ProcessingStep("extract_comments", c.video_metadata.video_id,
            "Comments: 0, Words: 0", TRUE, None))

CommentsDisabled(c) == [c EXCEPT !.comments = Some(EmptyComments)]

\* mutant of TranscriptSummarized: the fragments are joined last to first
TranscriptSummarizedReversed(c, chunks) ==
    WithStep([c EXCEPT !.transcript_summary =
                    Some(Join([i \in 1..Len(chunks) |-> chunks[Len(chunks) + 1 - i]]))],
        ProcessingStep("process_transcript",
            "Transcript (" \o ToString(c.transcript[1].word_count) \o " words)",
            "Summary (" \o ToString(SplitLen(Join(chunks))) \o " words)",
            TRUE, None))

TranscriptSummarized(c, chunks) ==
    WithStep([c EXCEPT !.transcript_summary = Some(Join(chunks))],
        ProcessingStep("process_transcript",
            "Transcript (" \o ToString(c.transcript[1].word_count) \o " words)",
            "Summary (" \o ToString(SplitLen(Join(chunks))) \o " words)",
            TRUE, None))

TranscriptSummaryFailed(c, e) ==
    WithStep(c,
        ProcessingStep("process_transcript",
            "Transcript (" \o ToString(c.transcript[1].word_count) \o " words)",
            "", FALSE, Some(Str(e))))

\* mutant of CommentsSummarized: the record takes the name of the transcript step
CommentsSummarizedAsTranscript(c, chunks) ==
    WithStep([c EXCEPT !.comments_summary = Some(Join(chunks))],
        ProcessingStep("process_transcript",
            "Comments (" \o ToString(c.comments[1].total_count) \o " items)",
            "Summary (" \o ToString(SplitLen(Join(chunks))) \o " words)",
            TRUE, None))

CommentsSummarized(c, chunks) ==
    WithStep([c EXCEPT !.comments_summary = Some(Join(chunks))],
        ProcessingStep("process_comments",
            "Comments (" \o ToString(c.comments[1].total_count) \o " items)",
            "Summary (" \o ToString(SplitLen(Join(chunks))) \o " words)",
            TRUE, None))

\* mutant of CommentsSummaryFailed: the summary is left unset
CommentsSummaryFailedUnset(c, e) ==
    WithStep(c,
        ProcessingStep("process_comments",
            "Comments (" \o ToString(c.comments[1].total_count) \o " items)",
            "", FALSE, Some(Str(e))))

CommentsSummaryFailed(c, e) ==
    WithStep([c EXCEPT !.comments_summary = Some("")],
        ProcessingStep("process_comments",
            "Comments (" \o ToString(c.comments[1].total_count) \o " items)",
            "", FALSE, Some(Str(e))))

\* mutant of BestAvailableSummary: the transcript summary is preferred
BestAvailableSummaryTranscriptFirst(c) ==
    IF Truthy(c.transcript_summary) THEN c.transcript_summary[1]
    ELSE IF Truthy(c.comments_summary) THEN c.comments_summary[1]
    ELSE FallbackSummary

\* the summary used when synthesis is disabled
BestAvailableSummary(c) ==
    IF Truthy(c.comments_summary) THEN c.comments_summary[1]
    ELSE IF Truthy(c.transcript_summary) THEN c.transcript_summary[1]
    ELSE FallbackSummary

SynthesisDisabled(c) == [c EXCEPT !.compressed_summary = Some(BestAvailableSummary(c))]

\* mutant of Synthesized: the synthesis replaces the comments summary as well
SynthesizedOverSummaries(c, text) ==
    WithStep([c EXCEPT !.compressed_summary = Some(text),
                       !.comments_summary = Some(text)],
        ProcessingStep("synthesize_content", "Transcript + Comments summaries",
            "Compressed summary (" \o ToString(SplitLen(text)) \o " words)",
            TRUE, None))

Synthesized(c, text) ==
    WithStep([c EXCEPT !.compressed_summary = Some(text)],
        ProcessingStep("synthesize_content", "Transcript + Comments summaries",
            "Compressed summary (" \o ToString(SplitLen(text)) \o " words)",
            TRUE, None))

SynthesisFailedStep(c, e) ==
    WithStep(c,
        ProcessingStep("synthesize_content", "Transcript + Comments summaries",
            "", FALSE, Some(Str(e))))

EvaluationDisabled(c) == [c EXCEPT !.critical_assessment = Some(EmptyAssessment)]

Evaluated(c, a) ==
    WithStep([c EXCEPT !.critical_assessment = Some(a)],
        ProcessingStep("evaluate_critical_thinking", "Transcript + Comments summaries",
            "Assessment with " \o ToString(Len(a.standards)) \o " standards, "
                \o ToString(Len(a.selected_questions)) \o " priority questions",
            TRUE, None))

\* mutant of EvaluationFailedStep: a record for each attempt that raised
EvaluationFailedStepPerAttempt(c, e) ==
    [c EXCEPT !.processing_steps = @ \o
        Repeat(ProcessingStep("evaluate_critical_thinking",
                   "Transcript + Comments summaries", "", FALSE, Some(Str(e))),
               StopAfterAttempt)]

EvaluationFailedStep(c, e) ==
    WithStep(c,
        ProcessingStep("evaluate_critical_thinking", "Transcript + Comments summaries",
            "", FALSE, Some(Str(e))))

(* the steps of a run *)

ExtractVideoId ==
    /\ pc = "extract_video_id"
    /\ \/ /\ calls' = Append(calls, Call("extract_video_id", FALSE))
          /\ pc' = After("extract_video_id")
          /\ UNCHANGED exc
       \/ /\ calls' = Append(calls, Call("extract_video_id", TRUE))
          /\ Raise(Exception("ValueError", "Could not extract video ID from URL: url", None))
    /\ UNCHANGED <<evaluator, extractor, pipeline_config, step_logger, config, context, current_step, result>>

ExtractMetadataStart ==
    /\ pc = "extract_metadata"
    /\ StartStep("Extract Video Metadata")
    /\ pc' = "fetch_video_metadata"
    /\ UNCHANGED <<evaluator, extractor, pipeline_config, step_logger, config, context, calls, result, exc>>

\* mutant of MetadataFailed: the failure is swallowed and the run goes on
MetadataFailedContinue(e) ==
    /\ context' = Some(ProcessingContext(VideoMetadata))
    /\ pc' = After("extract_metadata")
    /\ UNCHANGED exc

\* on failure the exception of _step_1_extract_metadata reaches the handler
\* of analyze_video before a context exists
MetadataFailed(e) ==
    /\ Raise(e)
    /\ UNCHANGED context

ExtractMetadataEnd ==
    /\ pc = "fetch_video_metadata"
    /\ EndStep
    /\ \/ \E n \in 1..StopAfterAttempt :
            /\ MaySucceedAt(n)
            /\ calls' = calls \o Attempts("fetch_video_metadata", n, TRUE)
            /\ context' = Some(ProcessingContext(VideoMetadata))
            /\ pc' = After("extract_metadata")
            /\ UNCHANGED exc
       \/ /\ calls' = calls \o Attempts("fetch_video_metadata", StopAfterAttempt, FALSE)
          /\ MetadataFailed(RetryError(Exception("ValueError", "Video not found: vid", None)))
    /\ UNCHANGED <<evaluator, extractor, pipeline_config, step_logger, config, result>>

ExtractTranscriptStart ==
    /\ pc = "extract_transcript"
    /\ IF config.enable_transcript
       THEN /\ StartStep("Extract Video Transcript")
            /\ pc' = "fetch_transcript"
       ELSE /\ pc' = After("extract_transcript")
            /\ UNCHANGED current_step
    /\ UNCHANGED <<evaluator, extractor, pipeline_config, step_logger, config, context, calls, result, exc>>

\* fetch_transcript is called once.  A backend failure inside it is caught
\* there and comes back as an unavailable transcript; the call log then holds
\* the attempt of the backend that raised.  The handler of the step runs only
\* when fetch_transcript itself raises.
ExtractTranscriptEnd ==
    /\ pc = "fetch_transcript"
    /\ EndStep
    /\ \/ \E t \in Transcripts :
            /\ calls' = Append(calls, Call("fetch_transcript", FALSE))
            /\ context' = Some(TranscriptFetched(ctx, t))
       \/ \E m \in BackendErrors :
            /\ calls' = calls \o <<Call("get_transcript", TRUE),
                                   Call("fetch_transcript", FALSE)>>
            /\ context' = Some(TranscriptFetched(ctx, FailedTranscript(m)))
       \/ \E m \in BackendErrors :
            /\ calls' = Append(calls, Call("fetch_transcript", TRUE))
            /\ context' = Some(TranscriptFetchFailed(ctx, Exception("Exception", m, None)))
    /\ pc' = After("extract_transcript")
    /\ UNCHANGED <<evaluator, extractor, pipeline_config, step_logger, config, result, exc>>

ExtractCommentsStart ==
    /\ pc = "extract_comments"
    /\ IF config.enable_comments
       THEN /\ StartStep("Extract Video Comments")
            /\ pc' = "fetch_comments"
            /\ UNCHANGED context
       ELSE /\ context' = Some(CommentsDisabled(ctx))
            /\ pc' = After("extract_comments")
            /\ UNCHANGED current_step
    /\ UNCHANGED <<evaluator, extractor, pipeline_config, step_logger, config, calls, result, exc>>

\* fetch_comments catches a failure of the comments backend in its paging
\* loop and returns the comments collected so far, so @retry sees a normal
\* return; only an exception outside that loop is retried and, after the
\* last attempt, reaches the handler of the step.
ExtractCommentsEnd ==
    /\ pc = "fetch_comments"
    /\ EndStep
    /\ \/ \E n \in 1..StopAfterAttempt, cd \in CommentsAnswers :
            /\ MaySucceedAt(n)
            /\ calls' = calls \o Attempts("fetch_comments", n, TRUE)
            /\ context' = Some(CommentsFetched(ctx, cd))
       \/ \E cd \in CommentsAnswers :
            /\ calls' = calls \o <<Call("commentThreads.list", TRUE),
                                   Call("fetch_comments", FALSE)>>
            /\ context' = Some(CommentsFetched(ctx, cd))
       \/ \E m \in BackendErrors :
            /\ calls' = calls \o Attempts("fetch_comments", StopAfterAttempt, FALSE)
            /\ context' = Some(CommentsFetchFailed(ctx,
                                RetryError(Exception("HttpError", m, None))))
    /\ pc' = After("extract_comments")
    /\ UNCHANGED <<evaluator, extractor, pipeline_config, step_logger, config, result, exc>>

ProcessTranscriptStart ==
    /\ pc = "process_transcript"
    /\ IF TranscriptProcessingGate(config, ctx)
       THEN /\ StartStep("Process Video Transcript")
            /\ pc' = "generate_transcript_summary"
       ELSE /\ pc' = After("process_transcript")
            /\ UNCHANGED current_step
    /\ UNCHANGED <<evaluator, extractor, pipeline_config, step_logger, config, context, calls, result, exc>>

\* the stream is consumed fragment by fragment; it either ends after the
\* fragments of `chunks` or raises after them.  The generator function is
\* called once: @retry sees it return a generator and never retries.
ProcessTranscriptEnd ==
    /\ pc = "generate_transcript_summary"
    /\ EndStep
    /\ \E chunks \in Streams("t", MaxFragments) :
        \/ /\ calls' = Append(calls, StreamCall("generate_transcript_summary", FALSE, chunks))
           /\ context' = Some(TranscriptSummarized(ctx, chunks))
        \/ \E m \in BackendErrors :
            /\ calls' = Append(calls, StreamCall("generate_transcript_summary", TRUE, chunks))
            /\ context' = Some(TranscriptSummaryFailed(ctx,
                                APIError("OpenAI transcript processing failed: " \o m)))
    /\ pc' = After("process_transcript")
    /\ UNCHANGED <<evaluator, extractor, pipeline_config, step_logger, config, result, exc>>

ProcessCommentsStart ==
    /\ pc = "process_comments"
    /\ IF CommentsProcessingGate(config, ctx)
       THEN /\ StartStep("Process Video Comments")
            /\ pc' = "generate_comments_summary"
       ELSE /\ pc' = After("process_comments")
            /\ UNCHANGED current_step
    /\ UNCHANGED <<evaluator, extractor, pipeline_config, step_logger, config, context, calls, result, exc>>

ProcessCommentsEnd ==
    /\ pc = "generate_comments_summary"
    /\ EndStep
    /\ \E chunks \in Streams("c", MaxFragments) :
        \/ /\ calls' = Append(calls, StreamCall("generate_comments_summary", FALSE, chunks))
           /\ context' = Some(CommentsSummarized(ctx, chunks))
        \/ \E m \in BackendErrors :
            /\ calls' = Append(calls, StreamCall("generate_comments_summary", TRUE, chunks))
            /\ context' = Some(CommentsSummaryFailed(ctx,
                                APIError("OpenAI comments processing failed: " \o m)))
    /\ pc' = After("process_comments")
    /\ UNCHANGED <<evaluator, extractor, pipeline_config, step_logger, config, result, exc>>

SynthesizeStart ==
    /\ pc = "synthesize_content"
    /\ IF ~SynthesisEnabled(config)
       THEN /\ context' = Some(SynthesisDisabled(ctx))
            /\ pc' = After("synthesize_content")
            /\ UNCHANGED current_step
       ELSE /\ StartStep("Synthesize Content")
            /\ pc' = "compress_content"
            /\ UNCHANGED context
    /\ UNCHANGED <<evaluator, extractor, pipeline_config, step_logger, config, calls, result, exc>>

\* mutant of SynthesisFailed: the handler does not re-raise
SynthesisFailedSwallowed(e) ==
    /\ context' = Some(SynthesisFailedStep(ctx, e))
    /\ pc' = After("synthesize_content")
    /\ UNCHANGED exc

\* except Exception as e: ...append the failed step...; raise
SynthesisFailed(e) ==
    /\ context' = Some(SynthesisFailedStep(ctx, e))
    /\ Raise(e)

SynthesizeEnd ==
    /\ pc = "compress_content"
    /\ EndStep
    /\ \/ \E n \in 1..StopAfterAttempt, text \in CompressedTexts :
            /\ MaySucceedAt(n)
            /\ calls' = calls \o Attempts("compress_content", n, TRUE)
            /\ context' = Some(Synthesized(ctx, text))
            /\ pc' = After("synthesize_content")
            /\ UNCHANGED exc
       \/ \E m \in BackendErrors :
            /\ calls' = calls \o Attempts("compress_content", StopAfterAttempt, FALSE)
            /\ SynthesisFailed(RetryError(APIError("Content compression failed: " \o m)))
    /\ UNCHANGED <<evaluator, extractor, pipeline_config, step_logger, config, result>>

EvaluateStart ==
    /\ pc = "evaluate_critical_thinking"
    /\ IF ~EvaluationEnabled(config)
       THEN /\ context' = Some(EvaluationDisabled(ctx))
            /\ pc' = After("evaluate_critical_thinking")
            /\ UNCHANGED current_step
       ELSE /\ StartStep("Evaluate Critical Thinking")
            /\ pc' = "evaluate_content"
            /\ UNCHANGED context
    /\ UNCHANGED <<evaluator, extractor, pipeline_config, step_logger, config, calls, result, exc>>

EvaluationFailed(e) ==
    /\ context' = Some(EvaluationFailedStep(ctx, e))
    /\ Raise(e)

\* evaluate_content: validate the response, rank the questions, score the
\* standards; a backend error or an invalid response fails the attempt
EvaluateEnd ==
    /\ pc = "evaluate_content"
    /\ EndStep
    /\ \/ \E n \in 1..StopAfterAttempt, resp \in EvaluationResponses :
            /\ ValidResponse(resp)
            /\ \E selected \in SelectBestQuestions(resp, config.num_selected_questions) :
                context' = Some(Evaluated(ctx,
                    CriticalThinkingAssessment(resp, selected, CalculateImpactScores(resp))))
            /\ MaySucceedAt(n)
            /\ calls' = Append(calls \o Attempts("evaluate_content", n, TRUE),
                               Call("select_best_questions", FALSE))
            /\ pc' = After("evaluate_critical_thinking")
            /\ UNCHANGED exc
       \/ \E m \in BackendErrors \cup
                   {"validation error for CriticalThinkingStandard" :
                        resp \in {r \in EvaluationResponses : ~ValidResponse(r)}} :
            /\ calls' = calls \o Attempts("evaluate_content", StopAfterAttempt, FALSE)
            /\ EvaluationFailed(
                    RetryError(APIError("Critical thinking evaluation failed: " \o m)))
    /\ UNCHANGED <<evaluator, extractor, pipeline_config, step_logger, config, result>>

\* AnalysisResult(...): comments and critical_assessment are required fields,
\* a None there fails validation inside the try block
CreateResult ==
    /\ pc = "create_result"
    /\ IF IsNone(ctx.comments) \/ IsNone(ctx.critical_assessment)
       THEN /\ Raise(Exception("ValidationError", "validation error for AnalysisResult", None))
            /\ UNCHANGED result
       ELSE /\ result' = Some(AnalysisResult(ctx))
            /\ pc' = After("create_result")
            /\ UNCHANGED exc
    /\ UNCHANGED <<evaluator, extractor, pipeline_config, step_logger, config, context, current_step, calls>>

Next ==
    \/ ExtractVideoId
    \/ ExtractMetadataStart
    \/ ExtractMetadataEnd
    \/ ExtractTranscriptStart
    \/ ExtractTranscriptEnd
    \/ ExtractCommentsStart
    \/ ExtractCommentsEnd
    \/ ProcessTranscriptStart
    \/ ProcessTranscriptEnd
    \/ ProcessCommentsStart
    \/ ProcessCommentsEnd
    \/ SynthesizeStart
    \/ SynthesizeEnd
    \/ EvaluateStart
    \/ EvaluateEnd
    \/ CreateResult

Spec == Init /\ [][Next]_vars

\* analyze_video is one synchronous call: while every backend call returns or
\* raises and every stream ends, the step it is at is taken
\* The runs start from the configurations without audio download, a toggle no
\* step of analyze_video reads.
FairInit == Init /\ ~config.enable_audio_download

FairSpec == FairInit /\ [][Next]_vars /\ WF_vars(Next)

----------------------------------------------------------------------------
(* CriticalThinkingEvaluator on its own: the assessment evaluate_content  *)
(* builds from validated standards, analyze_video not being under way     *)

EvaluatorInit ==
    /\ config = [enable_transcript |-> TRUE, enable_comments |-> TRUE,
                 enable_transcript_processing |-> TRUE,
                 enable_comments_processing |-> TRUE,
                 enable_synthesis |-> TRUE, enable_evaluation |-> TRUE,
                 enable_audio_download |-> FALSE, num_selected_questions |-> MaxSelected]
    /\ pc = "extract_video_id"
    /\ context = None
    /\ current_step = None
    /\ calls = <<>>
    /\ result = None
    /\ exc = None
    /\ step_logger = StepLoggerIdle
    /\ evaluator \in {EvaluatorState("select_best_questions", standards, limit, <<>>, <<>>) :
                        standards \in RankerInputs, limit \in Limits}
    /\ extractor = ExtractorIdle
    /\ pipeline_config = NoConfigCall

\* selected_questions = self._select_best_questions(standards, num_questions)
SelectBestQuestionsCall ==
    /\ evaluator.pc = "select_best_questions"
    /\ \E df \in SortedQuestions(evaluator.standards) :
            evaluator' = [evaluator EXCEPT
                !.pc = "calculate_impact_scores",
                !.df = df,
                !.selected_questions = SelectFrom(df, evaluator.num_questions)]
    /\ UNCHANGED <<step_logger, config, pc, context, current_step, calls, result, exc, extractor,
                   pipeline_config>>

\* impact_scores = self._calculate_impact_scores(standards)
CalculateImpactScoresCall ==
    /\ evaluator.pc = "calculate_impact_scores"
    /\ evaluator' = [evaluator EXCEPT !.pc = "returned",
                                      !.impact_scores = CalculateImpactScores(evaluator.standards)]
    /\ UNCHANGED <<step_logger, config, pc, context, current_step, calls, result, exc, extractor,
                   pipeline_config>>

EvaluatorNext ==
    \/ SelectBestQuestionsCall
    \/ CalculateImpactScoresCall

EvaluatorSpec == EvaluatorInit /\ [][EvaluatorNext]_vars

\* n follow-up questions of one standard, told apart by the tag
QuestionsOf(tag, n) == [i \in 1..n |-> tag \o ToString(i)]

\* the ranker on two standards of different names, each with up to
\* MaxPerCategory follow-up questions of its own
CategoryPairs ==
    {<<CriticalThinkingStandard("Clarity", r1, QuestionsOf("c", n1)),
       CriticalThinkingStandard("Accuracy", r2, QuestionsOf("a", n2))>> :
        r1 \in Ratings, r2 \in Ratings,
        n1 \in 0..MaxPerCategory, n2 \in 0..MaxPerCategory}

RankerInit ==
    /\ config = [enable_transcript |-> TRUE, enable_comments |-> TRUE,
                 enable_transcript_processing |-> TRUE,
                 enable_comments_processing |-> TRUE,
                 enable_synthesis |-> TRUE, enable_evaluation |-> TRUE,
                 enable_audio_download |-> FALSE, num_selected_questions |-> MaxSelected]
    /\ pc = "extract_video_id"
    /\ context = None
    /\ current_step = None
    /\ calls = <<>>
    /\ result = None
    /\ exc = None
    /\ step_logger = StepLoggerIdle
    /\ evaluator \in {EvaluatorState("select_best_questions", standards, limit, <<>>, <<>>) :
                        standards \in CategoryPairs, limit \in Limits}
    /\ extractor = ExtractorIdle
    /\ pipeline_config = NoConfigCall

RankerSpec == RankerInit /\ [][EvaluatorNext]_vars

----------------------------------------------------------------------------
(* YouTubeExtractor.fetch_comments on its own *)

Min(a, b) == IF a < b THEN a ELSE b

\* maxResults=min(100, max_comments - len(comments))
MaxResults(e) == Min(PageSizeLimit, e.max_comments - Len(e.comments))

\* while len(comments) < max_comments and total_word_count < max_total_word_length
CollectingComments(e) ==
    /\ Len(e.comments) < e.max_comments
    /\ e.total_word_count < e.max_total_word_length

\* mutant of RetainComments: the word budget is not tested
RECURSIVE RetainCommentsNoBudget(_, _, _, _)
RetainCommentsNoBudget(items, comments, total_word_count, max_total_word_length) ==
    IF items = <<>>
    THEN [comments |-> comments, total_word_count |-> total_word_count]
    ELSE RetainCommentsNoBudget(Tail(items), Append(comments, CommentOf(Head(items))),
                                total_word_count + WordCount(Head(items)),
                                max_total_word_length)

\* for item in response.get("items", []): the comment is appended and counted
\* unless it would exceed the word budget, which ends the loop over the page
RECURSIVE RetainComments(_, _, _, _)
RetainComments(items, comments, total_word_count, max_total_word_length) ==
    IF items = <<>>
    THEN [comments |-> comments, total_word_count |-> total_word_count]
    ELSE IF total_word_count + WordCount(Head(items)) > max_total_word_length
         THEN [comments |-> comments, total_word_count |-> total_word_count]
         ELSE RetainComments(Tail(items), Append(comments, CommentOf(Head(items))),
                             total_word_count + WordCount(Head(items)),
                             max_total_word_length)

\* the body of the while loop when the request returns: the items are gone
\* through, then the loop ends unless the response names a next page
PageCollected(e, response) ==
    LET retained == RetainComments(response.items, e.comments, e.total_word_count,
                                   e.max_total_word_length)
    IN [e EXCEPT !.comments = retained.comments,
                 !.total_word_count = retained.total_word_count,
                 !.page_token = response.nextPageToken,
                 !.requests = @ + 1,
                 !.fetched = @ \o response.items,
                 !.rejected = @ \/ Len(retained.comments) - Len(e.comments)
                                      < Len(response.items),
                 !.pc = IF Truthy(response.nextPageToken) THEN "while" ELSE "return"]

\* mutant of PageRequestFailed: the handler lets the exception out
PageRequestFailedRaises(e, m) ==
    [e EXCEPT !.requests = @ + 1, !.error = Some(m), !.pc = "raised",
              !.raised = Some(Exception("HttpError", m, None))]

\* except Exception as e: logger.error(...); break
PageRequestFailed(e, m) ==
    [e EXCEPT !.requests = @ + 1, !.error = Some(m), !.pc = "return"]

\* one turn of the while loop: the request of a page and what follows it
FetchCommentsPage ==
    /\ extractor.method = "fetch_comments"
    /\ extractor.pc = "while"
    /\ CollectingComments(extractor)
    /\ \/ \E response \in CommentThreadsResponses(MaxResults(extractor),
                                                  extractor.requests + 1) :
            extractor' = PageCollected(extractor, response)
       \/ \E m \in BackendErrors : extractor' = PageRequestFailed(extractor, m)
    /\ UNCHANGED <<step_logger, config, pc, context, current_step, calls, result, exc, evaluator,
                   pipeline_config>>

\* the loop is over: return CommentsData(...)
FetchCommentsReturn ==
    /\ extractor.method = "fetch_comments"
    /\ \/ extractor.pc = "return"
       \/ extractor.pc = "while" /\ ~CollectingComments(extractor)
    /\ extractor' = [extractor EXCEPT
            !.pc = "returned",
            !.returned = Some(CommentsDataOf(extractor.comments,
                                             extractor.total_word_count))]
    /\ UNCHANGED <<step_logger, config, pc, context, current_step, calls, result, exc, evaluator,
                   pipeline_config>>

----------------------------------------------------------------------------
(* YouTubeExtractor.fetch_transcript on its own *)

TranscriptReturned(e, outcome, t) ==
    [e EXCEPT !.pc = "returned", !.tried = Append(@, outcome), !.returned = Some(t)]

\* Method 1: yt-dlp; an empty text or an exception leads to the fallback
FetchTranscriptYtdlp ==
    /\ extractor.method = "fetch_transcript"
    /\ extractor.pc = "ytdlp"
    /\ \/ \E text \in TranscriptTexts :
            extractor' = IF text # ""
                         THEN TranscriptReturned(extractor, "transcript",
                                                 AvailableTranscript(text))
                         ELSE [extractor EXCEPT !.pc = "youtube_api",
                                                !.tried = Append(@, "empty")]
       \/ extractor' = [extractor EXCEPT !.pc = "youtube_api",
                                         !.tried = Append(@, "raised")]
    /\ UNCHANGED <<step_logger, config, pc, context, current_step, calls, result, exc, evaluator,
                   pipeline_config>>

\* Method 2: YouTubeTranscriptApi.get_transcript(video_id) and its handlers
FetchTranscriptApi ==
    /\ extractor.method = "fetch_transcript"
    /\ extractor.pc = "youtube_api"
    /\ \/ \E text \in TranscriptTexts :
            extractor' = TranscriptReturned(extractor, "transcript",
                                            AvailableTranscript(text))
       \/ extractor' = TranscriptReturned(extractor, "disabled", DisabledTranscript)
       \/ \E m \in TranscriptApiErrors :
            extractor' = IF MentionsNoTranscripts(m)
                         THEN [extractor EXCEPT !.pc = "alternative",
                                                !.tried = Append(@, "raised"),
                                                !.error_msg = Some(m)]
                         ELSE TranscriptReturned(extractor, "raised", FailedTranscript(m))
    /\ UNCHANGED <<step_logger, config, pc, context, current_step, calls, result, exc, evaluator,
                   pipeline_config>>

\* Method 3: get_transcript with the alternative languages
FetchTranscriptAlternative ==
    /\ extractor.method = "fetch_transcript"
    /\ extractor.pc = "alternative"
    /\ \/ \E text \in TranscriptTexts :
            extractor' = TranscriptReturned(extractor, "transcript",
                                            AvailableTranscript(text))
       \/ extractor' = TranscriptReturned(extractor, "raised",
                                          FailedTranscript(extractor.error_msg[1]))
    /\ UNCHANGED <<step_logger, config, pc, context, current_step, calls, result, exc, evaluator,
                   pipeline_config>>

\* the calls of the extractor that are modelled: fetch_comments with limits
\* from 0 to MaxLimit, and fetch_transcript
ExtractorInit ==
    /\ config = [enable_transcript |-> TRUE, enable_comments |-> TRUE,
                 enable_transcript_processing |-> TRUE,
                 enable_comments_processing |-> TRUE,
                 enable_synthesis |-> TRUE, enable_evaluation |-> TRUE,
                 enable_audio_download |-> FALSE, num_selected_questions |-> MaxSelected]
    /\ pc = "extract_video_id"
    /\ context = None
    /\ current_step = None
    /\ calls = <<>>
    /\ result = None
    /\ exc = None
    /\ step_logger = StepLoggerIdle
    /\ evaluator = EvaluatorIdle
    /\ extractor \in {FetchCommentsState(max_comments, max_total_word_length) :
                          max_comments \in 0..MaxLimit,
                          max_total_word_length \in 0..MaxLimit}
                     \cup {FetchTranscriptState}
    /\ pipeline_config = NoConfigCall

ExtractorNext ==
    \/ FetchCommentsPage
    \/ FetchCommentsReturn
    \/ FetchTranscriptYtdlp
    \/ FetchTranscriptApi
    \/ FetchTranscriptAlternative

ExtractorSpec == ExtractorInit /\ [][ExtractorNext]_vars

----------------------------------------------------------------------------
(* get_pipeline_config on its own *)

\* config_dict: the parameters that are not None
ConfigDict(kwargs) ==
    [name \in {n \in ParamNames : Param(kwargs, n) # None} |-> Param(kwargs, name)[1]]

\* PipelineConfig(**config_dict): a field not given takes its default
PipelineConfigOf(config_dict) ==
    [name \in ParamNames |-> IF name \in DOMAIN config_dict THEN config_dict[name]
                             ELSE DefaultPipelineConfig[name]]

\* the value is falsy: False, 0 or ""
Falsy(name, value) ==
    IF name \in ToggleNames THEN value = FALSE
    ELSE IF name \in ModelNames THEN value = ""
    ELSE value = 0

\* mutant of GetPipelineConfig: a parameter is taken when it is truthy
GetPipelineConfigTruthy(kwargs) ==
    PipelineConfigOf(
        [name \in {n \in ParamNames : /\ Param(kwargs, n) # None
                                      /\ ~Falsy(n, Param(kwargs, n)[1])} |->
            Param(kwargs, name)[1]])

GetPipelineConfig(kwargs) == PipelineConfigOf(ConfigDict(kwargs))

GetPipelineConfigCall ==
    /\ pipeline_config.pc = "get_pipeline_config"
    /\ pipeline_config' = [pipeline_config EXCEPT
            !.pc = "returned",
            !.returned = Some(GetPipelineConfig(pipeline_config.kwargs))]
    /\ UNCHANGED <<step_logger, config, pc, context, current_step, calls, result, exc, evaluator,
                   extractor>>

ConfigInit ==
    /\ config = [enable_transcript |-> TRUE, enable_comments |-> TRUE,
                 enable_transcript_processing |-> TRUE,
                 enable_comments_processing |-> TRUE,
                 enable_synthesis |-> TRUE, enable_evaluation |-> TRUE,
                 enable_audio_download |-> FALSE, num_selected_questions |-> MaxSelected]
    /\ pc = "extract_video_id"
    /\ context = None
    /\ current_step = None
    /\ calls = <<>>
    /\ result = None
    /\ exc = None
    /\ step_logger = StepLoggerIdle
    /\ evaluator = EvaluatorIdle
    /\ extractor = ExtractorIdle
    /\ pipeline_config \in {ConfigCall(kwargs) : kwargs \in Kwargs}

ConfigNext == GetPipelineConfigCall

ConfigSpec == ConfigInit /\ [][ConfigNext]_vars

----------------------------------------------------------------------------
(* Vocabulary of the properties *)

Steps == IF IsNone(context) THEN <<>> ELSE ctx.processing_steps

Called(name) == \E i \in 1..Len(calls) : calls[i].name = name

\* the call of `name` failed for good: its last attempt raised
CallFailed(name) ==
    \E i \in 1..Len(calls) :
        /\ calls[i].name = name
        /\ calls[i].raised
        /\ (i = Len(calls) \/ calls[i + 1].name # name)

StepCount(name) == Cardinality({i \in 1..Len(Steps) : Steps[i].step_name = name})

FailedStepCount(name) ==
    Cardinality({i \in 1..Len(Steps) : Steps[i].step_name = name /\ ~Steps[i].success})

\* the calls whose failure aborts the run
FatalCalls == {"extract_video_id", "fetch_video_metadata", "compress_content",
               "evaluate_content"}

AbortedByFatalCall ==
    /\ Len(calls) > 0
    /\ calls[Len(calls)].name \in FatalCalls
    /\ calls[Len(calls)].raised

ProgramPoints ==
    <<"extract_video_id", "extract_metadata", "fetch_video_metadata",
      "extract_transcript", "fetch_transcript", "extract_comments", "fetch_comments",
      "process_transcript", "generate_transcript_summary",
      "process_comments", "generate_comments_summary",
      "synthesize_content", "compress_content",
      "evaluate_critical_thinking", "evaluate_content",
      "create_result", "returned", "raised">>

PcRank(p) == CHOOSE i \in 1..Len(ProgramPoints) : ProgramPoints[i] = p

\* bootstrap, extraction, processing, synthesis, evaluation, result
StageOfPc(p) ==
    LET r == PcRank(p) IN
    IF r <= 3 THEN 1
    ELSE IF r <= 7 THEN 2
    ELSE IF r <= 11 THEN 3
    ELSE IF r <= 13 THEN 4
    ELSE IF r <= 15 THEN 5
    ELSE 6

StageOfCall(name) ==
    CASE name \in {"extract_video_id", "fetch_video_metadata"} -> 1
      [] name \in {"get_transcript", "fetch_transcript",
                    "commentThreads.list", "fetch_comments"} -> 2
      [] name \in {"generate_transcript_summary", "generate_comments_summary"} -> 3
      [] name = "compress_content" -> 4
      [] name \in {"evaluate_content", "select_best_questions"} -> 5

----------------------------------------------------------------------------
(* Properties *)

\* C1: when the transcript fetch or the comments fetch raises, the run is not
\* aborted by it: a failed step record of that extraction is in the context,
\* the context holds the substitute value (an unavailable transcript with no
\* text and no words, an empty comments object), and an abort can only come
\* from a later fatal call.
C1_ExtractionFailureIsolated ==
    /\ CallFailed("fetch_transcript") =>
        /\ ~IsNone(context)
        /\ ctx.transcript = Some([text |-> None, word_count |-> 0, available |-> FALSE,
                                  error_message |-> None])
        /\ FailedStepCount("extract_transcript") = 1
        /\ PcRank(pc) > PcRank("fetch_transcript")
        /\ pc = "raised" => AbortedByFatalCall
    /\ CallFailed("fetch_comments") =>
        /\ ~IsNone(context)
        /\ ctx.comments = Some([comments |-> <<>>, total_count |-> 0,
                                processed_count |-> 0, total_word_count |-> 0])
        /\ FailedStepCount("extract_comments") = 1
        /\ PcRank(pc) > PcRank("fetch_comments")
        /\ pc = "raised" => AbortedByFatalCall

C1_Witness ==
    /\ pc = "returned"
    /\ CallFailed("fetch_transcript")
    /\ CallFailed("fetch_comments")

\* C2: when the compression call or the evaluation call fails, analyze_video
\* raises PipelineError and returns no result.
C2_FatalStagesAbort ==
    (CallFailed("compress_content") \/ CallFailed("evaluate_content")) =>
        /\ pc = "raised"
        /\ result = None
        /\ ~IsNone(exc)
        /\ exc[1].type = "PipelineError"

C2_Witness ==
    /\ pc = "raised"
    /\ CallFailed("evaluate_content")
    /\ CallFailed("fetch_transcript")
    /\ config.enable_synthesis

\* C3: for every combination of the toggles and every outcome of the
\* non-fatal backends, a run is aborted only by the failure of the bootstrap
\* or of an enabled fatal stage, every step before the end can be taken, and
\* a returned result has comments, a compressed summary and an assessment.
C3_ToggleIndependence ==
    /\ pc = "raised" => AbortedByFatalCall
    /\ pc \notin {"returned", "raised"} => ENABLED Next
    /\ pc = "returned" =>
        /\ ~IsNone(result)
        /\ ~IsNone(result[1].comments)
        /\ ~IsNone(result[1].compressed_summary)
        /\ ~IsNone(result[1].critical_assessment)

C3_Witness ==
    /\ pc = "returned"
    /\ ~config.enable_transcript
    /\ ~config.enable_comments
    /\ config.enable_transcript_processing
    /\ config.enable_comments_processing
    /\ config.enable_synthesis
    /\ config.enable_evaluation
    /\ IsNone(result[1].transcript)

\* C4: a failure of a summary generation is isolated: a failed record is
\* appended, the transcript summary stays None and the comments summary
\* becomes the empty string, and the run goes on to the following sub-steps.
C4_SummaryFailureIsolated ==
    /\ CallFailed("generate_transcript_summary") =>
        /\ FailedStepCount("process_transcript") = 1
        /\ ctx.transcript_summary = None
        /\ PcRank(pc) >= PcRank("process_comments")
        /\ pc = "raised" => AbortedByFatalCall
    /\ CallFailed("generate_comments_summary") =>
        /\ FailedStepCount("process_comments") = 1
        /\ ctx.comments_summary = Some("")
        /\ PcRank(pc) >= PcRank("synthesize_content")
        /\ pc = "raised" => AbortedByFatalCall

C4_Witness ==
    /\ pc = "returned"
    /\ CallFailed("generate_transcript_summary")
    /\ CallFailed("generate_comments_summary")
    /\ Called("compress_content")

\* C5: the bootstrap runs first in every run, and when the video id cannot be
\* resolved or the metadata fetch fails the run ends with PipelineError, no
\* context exists and no other backend has been called.
C5_BootstrapFatal ==
    /\ pc # "extract_video_id" => calls[1].name = "extract_video_id"
    /\ ~IsNone(context) => Called("fetch_video_metadata") /\ ~CallFailed("fetch_video_metadata")
    /\ (CallFailed("extract_video_id") \/ CallFailed("fetch_video_metadata")) =>
        /\ pc = "raised"
        /\ exc[1].type = "PipelineError"
        /\ IsNone(context)
        /\ IsNone(result)
        /\ \A i \in 1..Len(calls) :
                calls[i].name \in {"extract_video_id", "fetch_video_metadata"}

C5_Witness ==
    /\ pc = "raised"
    /\ CallFailed("fetch_video_metadata")
    /\ config.enable_transcript
    /\ config.enable_comments
    /\ config.enable_synthesis
    /\ config.enable_evaluation

\* C6: the program points are passed in the order bootstrap, extraction,
\* processing, synthesis, evaluation, each at most once; the backends are
\* called in the order of their stages and never ahead of the stage the run
\* is in; a failed fatal call is the last call of the run.
C6_CallsFollowStages ==
    /\ \A i \in 1..Len(calls) - 1 :
            StageOfCall(calls[i].name) <= StageOfCall(calls[i + 1].name)
    /\ LET stage == StageOfPc(pc) IN
        \A i \in 1..Len(calls) : StageOfCall(calls[i].name) <= stage
    /\ \A i \in 1..Len(calls) :
            (calls[i].name \in FatalCalls /\ calls[i].raised /\ i < Len(calls))
                => calls[i + 1].name = calls[i].name

C6_StrictStageOrder ==
    [][PcRank(pc') > PcRank(pc)]_vars /\ []C6_CallsFollowStages

C6_Witness ==
    /\ pc = "returned"
    /\ Len(Steps) = 6

\* C7: in a completed run the step records are exactly one per sub-step whose
\* gate was open, and none for a sub-step that was skipped.
C7_Gate(name) ==
    CASE name = "extract_transcript" -> config.enable_transcript
      [] name = "extract_comments" -> config.enable_comments
      [] name = "process_transcript" ->
            /\ config.enable_transcript_processing
            /\ ~IsNone(result[1].transcript)
            /\ result[1].transcript[1].available
      [] name = "process_comments" ->
            /\ config.enable_comments_processing
            /\ result[1].comments[1].total_count > 0
      [] name = "synthesize_content" -> config.enable_synthesis
      [] name = "evaluate_critical_thinking" -> config.enable_evaluation

C7_StepNames ==
    {"extract_transcript", "extract_comments", "process_transcript", "process_comments",
     "synthesize_content", "evaluate_critical_thinking"}

C7_OneRecordPerExecutedStep ==
    pc = "returned" =>
        /\ \A name \in C7_StepNames :
                StepCount(name) = IF C7_Gate(name) THEN 1 ELSE 0
        /\ \A i \in 1..Len(Steps) : Steps[i].step_name \in C7_StepNames
        /\ result[1].processing_steps = Steps

C7_Witness ==
    /\ pc = "returned"
    /\ config.enable_transcript
    /\ config.enable_transcript_processing
    /\ ~result[1].transcript[1].available
    /\ ~config.enable_comments
    /\ config.enable_comments_processing
    /\ Len(Steps) = 3

\* C8: with synthesis disabled the compression backend is never called, no
\* synthesis record exists, the stage cannot abort the run, and the
\* compressed summary is the comments summary if non-empty, else the
\* transcript summary if non-empty, else the fallback message.
C8_Expected ==
    IF ctx.comments_summary # None /\ ctx.comments_summary # Some("")
    THEN ctx.comments_summary[1]
    ELSE IF ctx.transcript_summary # None /\ ctx.transcript_summary # Some("")
         THEN ctx.transcript_summary[1]
         ELSE "Analysis completed without content synthesis."

C8_SynthesisDisabled ==
    ~config.enable_synthesis =>
        /\ ~Called("compress_content")
        /\ StepCount("synthesize_content") = 0
        /\ pc # "compress_content"
        /\ (~IsNone(context) /\ PcRank(pc) > PcRank("synthesize_content")) =>
                ctx.compressed_summary = Some(C8_Expected)

C8_Witness ==
    /\ pc = "returned"
    /\ ~config.enable_synthesis
    /\ result[1].comments_summary = Some("c1c2")
    /\ result[1].transcript_summary = Some("t1t2")
    /\ result[1].compressed_summary = Some("c1c2")

\* C9: with evaluation disabled the evaluation backend and the ranker are
\* never called, no evaluation record exists, and the returned assessment
\* has no standards, no selected questions and no impact scores.
C9_EvaluationDisabled ==
    ~config.enable_evaluation =>
        /\ ~Called("evaluate_content")
        /\ ~Called("select_best_questions")
        /\ StepCount("evaluate_critical_thinking") = 0
        /\ pc = "returned" =>
                result[1].critical_assessment =
                    Some([standards |-> <<>>, selected_questions |-> <<>>,
                          impact_scores |-> <<>>])

C9_Witness ==
    /\ pc = "returned"
    /\ ~config.enable_evaluation
    /\ config.enable_synthesis
    /\ Called("compress_content")

C11_Outcome ==
    /\ pc = "returned" => (~IsNone(result) /\ IsNone(exc))
    /\ pc = "raised" => (~IsNone(exc) /\ exc[1].type = "PipelineError" /\ IsNone(result))
    /\ pc \notin {"returned", "raised"} => (IsNone(result) /\ IsNone(exc))
    /\ \A name \in FatalCalls : CallFailed(name) => (IsNone(result) /\ pc = "raised")

C11_Terminates ==
    /\ <>(pc \in {"returned", "raised"})
    /\ []C11_Outcome
    /\ [][pc \notin {"returned", "raised"}]_vars

C11_Witness ==
    /\ pc = "raised"
    /\ CallFailed("evaluate_content")
    /\ StepCount("synthesize_content") = 1
    /\ FailedStepCount("evaluate_critical_thinking") = 1
    /\ IsNone(result)

\* the outbound calls of a run
BackendCalls ==
    {"fetch_video_metadata", "fetch_transcript", "fetch_comments",
     "generate_transcript_summary", "generate_comments_summary",
     "compress_content", "evaluate_content"}

AttemptCount(name) == Cardinality({i \in 1..Len(calls) : calls[i].name = name})

\* the step record a call is reported in; the metadata fetch has none
StepOf(name) ==
    CASE name = "fetch_transcript" -> "extract_transcript"
      [] name = "fetch_comments" -> "extract_comments"
      [] name = "generate_transcript_summary" -> "process_transcript"
      [] name = "generate_comments_summary" -> "process_comments"
      [] name = "compress_content" -> "synthesize_content"
      [] name = "evaluate_content" -> "evaluate_critical_thinking"

SeenAsSuccess(name) ==
    IF name = "fetch_video_metadata" THEN ~IsNone(context)
    ELSE StepCount(StepOf(name)) = 1 /\ FailedStepCount(StepOf(name)) = 0

\* C12: every outbound call is retried up to 3 attempts in all: no call is
\* attempted more than 3 times, the orchestrator sees a call fail only after
\* its 3 attempts are used up, and a call that raised and then succeeded at
\* a later attempt leaves a successful step.
C12_RetriedUpToThree ==
    \A name \in BackendCalls :
        /\ AttemptCount(name) <= StopAfterAttempt
        /\ CallFailed(name) => AttemptCount(name) = StopAfterAttempt
        /\ (AttemptCount(name) > 1 /\ ~CallFailed(name)) => SeenAsSuccess(name)

\* the calls whose failure belongs to each extraction or processing sub-step
BackendsOf(step_name) ==
    CASE step_name = "extract_transcript" -> {"get_transcript", "fetch_transcript"}
      [] step_name = "extract_comments" -> {"commentThreads.list", "fetch_comments"}
      [] step_name = "process_transcript" -> {"generate_transcript_summary"}
      [] step_name = "process_comments" -> {"generate_comments_summary"}

\* C13: an aborted run raises and returns nothing, and in a completed run
\* every extraction or processing sub-step whose backend failed has its one
\* step record with success = False.
C13_FailuresVisible ==
    /\ pc = "raised" => (IsNone(result) /\ ~IsNone(exc))
    /\ pc = "returned" =>
          \A step_name \in {"extract_transcript", "extract_comments",
                             "process_transcript", "process_comments"} :
              (\E name \in BackendsOf(step_name) : CallFailed(name)) =>
                  (StepCount(step_name) = 1 /\ FailedStepCount(step_name) = 1)

\* the context with its step records erased
WithoutRecords(c) == [c EXCEPT !.processing_steps = <<>>]

\* every condition analyze_video branches on has the same value with and
\* without the step records
C14_ControlIgnoresRecords ==
    ~IsNone(context) =>
        /\ TranscriptProcessingGate(config, ctx)
              = TranscriptProcessingGate(config, WithoutRecords(ctx))
        /\ CommentsProcessingGate(config, ctx)
              = CommentsProcessingGate(config, WithoutRecords(ctx))
        /\ BestAvailableSummary(ctx) = BestAvailableSummary(WithoutRecords(ctx))
        /\ (IsNone(ctx.comments) \/ IsNone(ctx.critical_assessment))
              = (IsNone(WithoutRecords(ctx).comments)
                    \/ IsNone(WithoutRecords(ctx).critical_assessment))

\* C14: the step records are append-only: every step of a run leaves the
\* records it found as a prefix of the records it leaves (so no record is
\* changed or removed), and no branch of the run depends on the records.
C14_AppendOnly ==
    /\ [][/\ Len(Steps) <= Len(Steps')
           /\ SubSeq(Steps', 1, Len(Steps)) = Steps]_vars
    /\ []C14_ControlIgnoresRecords

C14_Witness ==
    /\ pc = "returned"
    /\ Len(Steps) = 6
    /\ ~Steps[3].success
    /\ Steps[6].success

----------------------------------------------------------------------------
(* Properties of the ranker and of the impact scores *)

\* _select_best_questions has returned
RankerReturned == evaluator.pc \in {"calculate_impact_scores", "returned"}

\* the follow-up questions of all standards, as a set of strings
Candidates(standards) ==
    UNION {{standards[i].followup_questions[j] :
                j \in 1..Len(standards[i].followup_questions)} : i \in 1..Len(standards)}

\* the number of follow-up questions over all standards
RECURSIVE CandidateCount(_)
CandidateCount(standards) ==
    IF standards = <<>> THEN 0
    ELSE Len(Head(standards).followup_questions) + CandidateCount(Tail(standards))

Returned(questions) == {questions[i] : i \in 1..Len(questions)}

\* C15 as stated: the ranker returns at most limit questions, each of them a
\* follow-up question of some standard.
C15_AtMostLimit ==
    RankerReturned =>
        /\ Len(evaluator.selected_questions) <= evaluator.num_questions
        /\ Returned(evaluator.selected_questions) \subseteq Candidates(evaluator.standards)

\* C15: the ranker returns at most limit questions, and none when the limit
\* is negative; each returned question is a follow-up question of some
\* standard.
C15_AtMostLimitOrNone ==
    RankerReturned =>
        /\ Len(evaluator.selected_questions)
              <= (IF evaluator.num_questions > 0 THEN evaluator.num_questions ELSE 0)
        /\ Returned(evaluator.selected_questions) \subseteq Candidates(evaluator.standards)

C15_Witness ==
    /\ RankerReturned
    /\ evaluator.num_questions = 1
    /\ CandidateCount(evaluator.standards) = 2
    /\ Len(evaluator.standards) = 2
    /\ Len(evaluator.selected_questions) = 1

\* C16: no question occurs twice in the list the ranker returns.
C16_NoDuplicates ==
    RankerReturned =>
        \A i, j \in 1..Len(evaluator.selected_questions) :
            i # j => evaluator.selected_questions[i] # evaluator.selected_questions[j]

\* C17 as stated: with fewer candidates than the limit the ranker returns all
\* candidates and nothing else, as many questions as there are candidates.
C17_AllCandidatesReturned ==
    (RankerReturned /\ CandidateCount(evaluator.standards) < evaluator.num_questions) =>
        /\ Returned(evaluator.selected_questions) = Candidates(evaluator.standards)
        /\ Len(evaluator.selected_questions) = CandidateCount(evaluator.standards)

\* C17: with fewer candidates than the limit the ranker returns every
\* candidate string and nothing else, never more questions than there are
\* candidates, and exactly as many when no candidate string is repeated.
C17_AllCandidateStringsReturned ==
    (RankerReturned /\ CandidateCount(evaluator.standards) < evaluator.num_questions) =>
        /\ Returned(evaluator.selected_questions) = Candidates(evaluator.standards)
        /\ Len(evaluator.selected_questions) <= CandidateCount(evaluator.standards)
        /\ Cardinality(Candidates(evaluator.standards)) = CandidateCount(evaluator.standards)
              => Len(evaluator.selected_questions) = CandidateCount(evaluator.standards)

C17_Witness ==
    /\ RankerReturned
    /\ evaluator.num_questions = 3
    /\ Len(evaluator.standards) = 1
    /\ CandidateCount(evaluator.standards) = 2
    /\ Len(evaluator.selected_questions) = 2
    /\ evaluator.selected_questions[1] # evaluator.selected_questions[2]

HasQuestions(std) == std.followup_questions # <<>>

\* C18: the ranker has a list to return for every input; for a limit of zero or less it returns the
\* empty list; when no standard has a question it returns the empty list; and
\* what it returns is what it returns for the same list without the
\* standards that have no question.
C18_EdgeCases ==
    /\ evaluator.pc = "select_best_questions"
          => SelectBestQuestions(evaluator.standards, evaluator.num_questions) # {}
    /\ RankerReturned =>
        /\ evaluator.num_questions <= 0 => evaluator.selected_questions = <<>>
        /\ (\A i \in 1..Len(evaluator.standards) : ~HasQuestions(evaluator.standards[i]))
              => evaluator.selected_questions = <<>>
        /\ evaluator.selected_questions
              \in SelectBestQuestions(SelectSeq(evaluator.standards, HasQuestions),
                                      evaluator.num_questions)

C18_Witness ==
    /\ RankerReturned
    /\ evaluator.num_questions < 0
    /\ Len(evaluator.standards) = 2
    /\ ~HasQuestions(evaluator.standards[1])
    /\ Len(evaluator.standards[2].followup_questions) = 2
    /\ evaluator.selected_questions = <<>>

\* C19 as stated: in a returned assessment the impact score under the name
\* of every standard is (10 - rating) * 10 of that standard and lies in
\* [0, 100], and a lower rating gives a strictly higher impact score.
C19_ImpactScores ==
    evaluator.pc = "returned" =>
        /\ \A i \in 1..Len(evaluator.standards) :
            /\ evaluator.impact_scores[evaluator.standards[i].name]
                  = (10 - evaluator.standards[i].rating) * 10
            /\ evaluator.impact_scores[evaluator.standards[i].name] \in 0..100
        /\ \A i, j \in 1..Len(evaluator.standards) :
                evaluator.standards[i].rating < evaluator.standards[j].rating
                  => evaluator.impact_scores[evaluator.standards[i].name]
                        > evaluator.impact_scores[evaluator.standards[j].name]

\* no later standard of the list has the name of the i-th
LastOfName(standards, i) ==
    \A j \in 1..Len(standards) : standards[j].name = standards[i].name => j <= i

\* C19: in a returned assessment the impact scores are keyed by the names of
\* the standards, every score lies in [0, 100], the score under a name is
\* (10 - rating) * 10 of the last standard of that name, and among these
\* standards a lower rating gives a strictly higher impact score.
C19_ImpactScoresOfLast ==
    evaluator.pc = "returned" =>
        /\ DOMAIN evaluator.impact_scores
              = {evaluator.standards[i].name : i \in 1..Len(evaluator.standards)}
        /\ \A i \in 1..Len(evaluator.standards) :
            /\ evaluator.impact_scores[evaluator.standards[i].name] \in 0..100
            /\ LastOfName(evaluator.standards, i)
                  => evaluator.impact_scores[evaluator.standards[i].name]
                        = (10 - evaluator.standards[i].rating) * 10
        /\ \A i, j \in 1..Len(evaluator.standards) :
                (/\ LastOfName(evaluator.standards, i)
                 /\ LastOfName(evaluator.standards, j)
                 /\ evaluator.standards[i].rating < evaluator.standards[j].rating)
                  => evaluator.impact_scores[evaluator.standards[i].name]
                        > evaluator.impact_scores[evaluator.standards[j].name]

C19_Witness ==
    /\ evaluator.pc = "returned"
    /\ Len(evaluator.standards) = 2
    /\ evaluator.standards[1].name # evaluator.standards[2].name
    /\ evaluator.standards[1].rating = 0
    /\ evaluator.standards[2].rating = 10
    /\ evaluator.impact_scores[evaluator.standards[1].name] = 100
    /\ evaluator.impact_scores[evaluator.standards[2].name] = 0

\* the standards of the assessment of an Optional holder of one
StandardsIn(holder) ==
    IF IsNone(holder) \/ IsNone(holder[1].critical_assessment) THEN <<>>
    ELSE holder[1].critical_assessment[1].standards

\* the evaluation call ended on a response that failed validation
InvalidResponseSeen ==
    /\ ~IsNone(exc)
    /\ exc[1].cause[1].type = "RetryError"
    /\ exc[1].cause[1].cause[1].msg
          = "Critical thinking evaluation failed: validation error for CriticalThinkingStandard"

----------------------------------------------------------------------------
(* Properties of the extractor *)

\* fetch_comments has returned
FetchCommentsReturned == extractor.method = "fetch_comments" /\ extractor.pc = "returned"

\* fetch_transcript has returned
FetchTranscriptReturned ==
    extractor.method = "fetch_transcript" /\ extractor.pc = "returned"

\* the words of the retained comments, counted again
RECURSIVE SumWordCounts(_)
SumWordCounts(comments) ==
    IF comments = <<>> THEN 0
    ELSE WordCount(Head(comments).comment) + SumWordCounts(Tail(comments))

C22_ToleratesBackendErrors ==
    [][extractor.method = "fetch_comments" =>
          /\ extractor'.raised = None
          /\ (extractor.pc = "while" /\ extractor'.error # None) =>
                /\ extractor'.comments = extractor.comments
                /\ extractor'.total_word_count = extractor.total_word_count
                /\ extractor'.pc = "return"
          /\ extractor.pc = "return" =>
                /\ extractor'.pc = "returned"
                /\ extractor'.returned =
                      Some(CommentsDataOf(extractor.comments, extractor.total_word_count))]_vars

\* the second page request failed after a comment was collected
C22_Witness ==
    /\ FetchCommentsReturned
    /\ extractor.error # None
    /\ extractor.requests = 2
    /\ extractor.returned[1].total_count = 1

\* an extraction method of the call yielded a transcript
SomeMethodYielded ==
    \E i \in 1..Len(extractor.tried) : extractor.tried[i] = "transcript"

\* C23: fetch_transcript never raises; it returns an available transcript
\* exactly when one of its methods yielded one, and a transcript returned as
\* not available has text None, word_count 0 and a non-empty error message.
C23_NeverRaises ==
    extractor.method = "fetch_transcript" =>
        /\ extractor.raised = None
        /\ extractor.pc = "returned" =>
              LET t == extractor.returned[1]
              IN /\ t.available <=> SomeMethodYielded
                 /\ ~t.available =>
                       /\ t.text = None
                       /\ t.word_count = 0
                       /\ Truthy(t.error_message)

\* all three methods raised
C23_Witness ==
    /\ FetchTranscriptReturned
    /\ extractor.tried = <<"raised", "raised", "raised">>
    /\ ~extractor.returned[1].available

----------------------------------------------------------------------------
(* Properties of get_pipeline_config *)

ConfigReturned == pipeline_config.pc = "returned"

\* C26: the configuration get_pipeline_config returns has, for every
\* parameter given a value other than None, that value (False and 0
\* included), and for every other parameter the default of PipelineConfig.
C26_OverridesOnly ==
    ConfigReturned =>
        \A name \in ParamNames :
            pipeline_config.returned[1][name] =
                IF /\ name \in DOMAIN pipeline_config.kwargs
                   /\ pipeline_config.kwargs[name] # None
                THEN pipeline_config.kwargs[name][1]
                ELSE DefaultPipelineConfig[name]

\* False and 0 are given for two parameters whose defaults are truthy
C26_Witness ==
    /\ ConfigReturned
    /\ DOMAIN pipeline_config.kwargs = {"enable_transcript", "max_comments"}
    /\ pipeline_config.kwargs["enable_transcript"] = Some(FALSE)
    /\ pipeline_config.kwargs["max_comments"] = Some(0)
    /\ pipeline_config.returned[1].enable_transcript = FALSE
    /\ pipeline_config.returned[1].max_comments = 0

\* C27: get_pipeline_config() without arguments returns max_comments 5000,
\* max_total_word_length 80000, openai_model "gpt-4.5-preview" and
\* enable_transcript True.
C27_Defaults ==
    (ConfigReturned /\ DOMAIN pipeline_config.kwargs = {}) =>
        /\ pipeline_config.returned[1].max_comments = 5000
        /\ pipeline_config.returned[1].max_total_word_length = 80000
        /\ pipeline_config.returned[1].openai_model = "gpt-4.5-preview"
        /\ pipeline_config.returned[1].enable_transcript = TRUE

----------------------------------------------------------------------------
(* Properties of the state a run writes *)

\* the positions at which a step of the run is under way, between its
\* start_step and its end_step
StepUnderWay ==
    {"fetch_video_metadata", "fetch_transcript", "fetch_comments",
     "generate_transcript_summary", "generate_comments_summary",
     "compress_content", "evaluate_content"}

\* C24 as stated: a run writes its context only; the StepLogger the
\* ChainProcessor holds stays as it was constructed.
C24_OnlyContextWritten == current_step = None

\* C24: outside its context a run writes the current step of the StepLogger
\* of the ChainProcessor, and nothing else; the logger names a step only
\* while that step is under way, so a run that has returned or raised leaves
\* the logger as it found it.
C24_LoggerSetOnlyWithinStep ==
    /\ current_step # None => pc \in StepUnderWay
    /\ pc \in {"returned", "raised"} => current_step = None

\* a run aborted by its evaluation step, after six steps started and ended
C24_Witness ==
    /\ pc = "raised"
    /\ current_step = None
    /\ ~IsNone(context)
    /\ Len(Steps) = 6

\* the outcomes of the two extraction sub-steps under a configuration: the
\* sub-step is disabled, its fetch returned, or its fetch raised
TranscriptOutcomes(cfg) ==
    IF ~cfg.enable_transcript THEN {<<"disabled", None>>}
    ELSE {<<"fetched", t>> :
                t \in Transcripts \cup {FailedTranscript(m) : m \in BackendErrors}}
         \cup {<<"failed", Exception("Exception", m, None)>> : m \in BackendErrors}

CommentsOutcomes(cfg) ==
    IF ~cfg.enable_comments THEN {<<"disabled", None>>}
    ELSE {<<"fetched", cd>> : cd \in CommentsAnswers}
         \cup {<<"failed", RetryError(Exception("HttpError", m, None))>> :
                    m \in BackendErrors}

\* the transcript sub-step of _step_1_extract_data, run on context c
ExtractTranscriptStep(c, outcome) ==
    CASE outcome[1] = "fetched" -> TranscriptFetched(c, outcome[2])
      [] outcome[1] = "failed" -> TranscriptFetchFailed(c, outcome[2])
      [] outcome[1] = "disabled" -> c

\* the comments sub-step of _step_1_extract_data, run on context c
ExtractCommentsStep(c, outcome) ==
    CASE outcome[1] = "fetched" -> CommentsFetched(c, outcome[2])
      [] outcome[1] = "failed" -> CommentsFetchFailed(c, outcome[2])
      [] outcome[1] = "disabled" -> CommentsDisabled(c)

\* the extraction stage is over and the processing stage has not begun
ExtractionDone == pc = "process_transcript"

\* the same records, in any order
SameRecords(s, t) ==
    /\ Len(s) = Len(t)
    /\ \A i \in 1..Len(s) :
          Cardinality({j \in 1..Len(s) : s[j] = s[i]})
              = Cardinality({j \in 1..Len(t) : t[j] = s[i]})

AudioFlipped(cfg) == [cfg EXCEPT !.enable_audio_download = ~@]

\* everything analyze_video takes from the configuration when its context is
\* c: the toggles of the two fetches, the gates of the processing sub-steps,
\* of the synthesis and of the evaluation, and the question limit
ConfigReads(cfg, c) ==
    <<cfg.enable_transcript, cfg.enable_comments,
      TranscriptProcessingGate(cfg, c), CommentsProcessingGate(cfg, c),
      SynthesisEnabled(cfg), EvaluationEnabled(cfg), cfg.num_selected_questions>>

----------------------------------------------------------------------------
(* Properties of the order of the ranker *)

\* questions_data of the call, with the scores
Flattened == WithImpactScore(QuestionsData(evaluator.standards))

ScoreEqual(a, b) == a.num * b.den = b.num * a.den

\* the categories that have a question
Categories == {Flattened[i].standard_name : i \in 1..Len(Flattened)}

\* C29: the sorted candidates are the flattened candidates (standards in
\* input order, then questions in list order) by final score descending,
\* candidates of equal score in their flattened order; the final score is
\* (10 - rating) * 10 + 50 / count, count being the number of candidates of
\* the same category name.
C29_StableDescending ==
    RankerReturned =>
        LET df == evaluator.df
        IN /\ Len(df) = Len(Flattened)
           /\ \A i \in 1..Len(df) :
                 /\ df[i].den = Cardinality({j \in 1..Len(df) :
                                    df[j].standard_name = df[i].standard_name})
                 /\ df[i].num = (10 - df[i].rating) * 10 * df[i].den + 50
           /\ \E p \in Permutations(1..Len(df)) :
                 /\ \A i \in 1..Len(df) : df[i] = Flattened[p[i]]
                 /\ \A i, j \in 1..Len(df) :
                       i < j => \/ ScoreGreater(df[i], df[j])
                                \/ ScoreEqual(df[i], df[j]) /\ p[i] < p[j]

\* C30: the first min(limit, number of categories) questions returned come
\* from rows of the sorted candidates of pairwise distinct categories, and
\* with a limit of at least the number of categories every category has a
\* question among those returned.
C30_FirstPassDiverse ==
    RankerReturned =>
        LET df == evaluator.df
            selected == evaluator.selected_questions
            k == Min(evaluator.num_questions, Cardinality(Categories))
        IN /\ k > 0 =>
                 /\ Len(selected) >= k
                 /\ \E row \in [1..k -> 1..Len(df)] :
                       /\ \A i \in 1..k : selected[i] = df[row[i]].question
                       /\ \A i, j \in 1..k :
                             i # j => df[row[i]].standard_name # df[row[j]].standard_name
           /\ evaluator.num_questions >= Cardinality(Categories) =>
                 \A category \in Categories :
                    \E i \in 1..Len(df) :
                       /\ df[i].standard_name = category
                       /\ df[i].question \in Returned(selected)

\* the category that comes first has two questions, and the question of the
\* other category is returned before its second one
C30_Witness ==
    /\ RankerReturned
    /\ evaluator.num_questions = 2
    /\ Len(evaluator.df) = 3
    /\ evaluator.df[1].standard_name = evaluator.df[2].standard_name
    /\ evaluator.df[3].standard_name # evaluator.df[1].standard_name
    /\ evaluator.selected_questions
          = <<evaluator.df[1].question, evaluator.df[3].question>>
    /\ evaluator.df[2].question # evaluator.df[3].question

\* the number of questions the first pass selects
FirstPassCount ==
    Min(IF evaluator.num_questions > 0 THEN evaluator.num_questions ELSE 0,
        Cardinality(Categories))

\* the first row of the sorted candidates that holds question q
FirstRowOf(q) ==
    CHOOSE i \in 1..Len(evaluator.df) :
        /\ evaluator.df[i].question = q
        /\ \A j \in 1..(i - 1) : evaluator.df[j].question # q

\* C31: the questions returned after those of the first pass were not
\* selected before, come in the order of the sorted candidates (descending
\* final score), and fill the slots the first pass left: a candidate whose
\* question is not returned leaves no slot free and stands below every
\* candidate the second pass took.
C31_SecondPassFillsInOrder ==
    RankerReturned =>
        LET df == evaluator.df
            selected == evaluator.selected_questions
            k == FirstPassCount
        IN /\ Len(selected) >= k
           /\ \A i \in (k + 1)..Len(selected) :
                 /\ selected[i] \in {df[j].question : j \in 1..Len(df)}
                 /\ \A h \in 1..(i - 1) : selected[h] # selected[i]
                 /\ \A h \in (k + 1)..(i - 1) :
                       FirstRowOf(selected[h]) < FirstRowOf(selected[i])
           /\ \A j \in 1..Len(df) :
                 df[j].question \notin Returned(selected) =>
                    /\ Len(selected) >= evaluator.num_questions
                    /\ \A i \in (k + 1)..Len(selected) : FirstRowOf(selected[i]) < j

\* two categories of two questions and a limit of three: the second question
\* of the category that comes first fills the third slot, the last row is
\* left out
C31_Witness ==
    /\ RankerReturned
    /\ evaluator.num_questions = 3
    /\ Len(evaluator.df) = 4
    /\ evaluator.df[1].standard_name = evaluator.df[2].standard_name
    /\ evaluator.selected_questions
          = <<evaluator.df[1].question, evaluator.df[3].question,
              evaluator.df[2].question>>

----------------------------------------------------------------------------
(* Properties of the paging of fetch_comments *)

\* C32: once the retained comments have reached max_comments, or the word
\* limit has turned a comment down, fetch_comments is not at a point where it
\* requests a further page; and the retained comments are the first comments
\* received, in the order of the pages.
C32_StopsAtEitherBound ==
    extractor.method = "fetch_comments" =>
        /\ (Len(extractor.comments) >= extractor.max_comments \/ extractor.rejected) =>
              ~(extractor.pc = "while" /\ CollectingComments(extractor))
        /\ Len(extractor.comments) <= Len(extractor.fetched)
        /\ \A i \in 1..Len(extractor.comments) :
              extractor.comments[i] = CommentOf(extractor.fetched[i])

----------------------------------------------------------------------------
(* Properties of the summaries of the processing stage *)

\* the call of the stream `name`, which the processing stage makes at most once
StreamCallOf(name) == calls[CHOOSE i \in 1..Len(calls) : calls[i].name = name]

\* C33: a summary stream that ends leaves the concatenation of its fragments,
\* in the order of emission, as the summary; a stream that raises leaves no
\* partial concatenation: the transcript summary stays unset and the comments
\* summary is the empty string.
C33_SummaryIsWholeStreamOrNothing ==
    ~IsNone(context) =>
        /\ Called("generate_transcript_summary") =>
              ctx.transcript_summary =
                  IF StreamCallOf("generate_transcript_summary").raised THEN None
                  ELSE Some(Join(StreamCallOf("generate_transcript_summary").yielded))
        /\ Called("generate_comments_summary") =>
              ctx.comments_summary =
                  IF StreamCallOf("generate_comments_summary").raised THEN Some("")
                  ELSE Some(Join(StreamCallOf("generate_comments_summary").yielded))

C33_Witness ==
    /\ ~IsNone(context)
    /\ Called("generate_transcript_summary")
    /\ StreamCallOf("generate_transcript_summary") =
            StreamCall("generate_transcript_summary", FALSE, <<"t1", "t2">>)
    /\ ctx.transcript_summary = Some("t1t2")
    /\ Called("generate_comments_summary")
    /\ StreamCallOf("generate_comments_summary").raised
    /\ StreamCallOf("generate_comments_summary").yielded = <<"c1", "c2">>
    /\ ctx.comments_summary = Some("")

----------------------------------------------------------------------------
(* The StepLogger on its own: the two sub-steps of _step_1_extract_data    *)
(* with the time that end_step returns for each record                     *)

\* the readings of datetime.now(), the local wall clock, in seconds; nothing
\* orders two successive readings
Clock == 0..MaxClock

\* _step_1_extract_data entered with a fresh context and an idle logger;
\* processing_time[i] is the processing_time of the i-th step record
TimedExtraction ==
    [StepLoggerIdle EXCEPT !.pc = "extract_transcript",
                           !.context = Some(ProcessingContext(VideoMetadata))]

\* StepLogger.start_step called when the clock reads `now`
StartStepAt(l, step_name, now) ==
    [l EXCEPT !.current_step = Some(step_name), !.step_start_time = Some(now)]

\* StepLogger.end_step called when the clock reads `now`: the logger
\* afterwards and the duration returned
EndStepAt(l, now) ==
    IF ~Truthy(l.current_step) \/ IsNone(l.step_start_time)
    THEN [logger |-> l, duration |-> 0]
    ELSE [logger |-> [l EXCEPT !.current_step = None, !.step_start_time = None],
          duration |-> now - l.step_start_time[1]]

TimedTranscriptStart ==
    /\ step_logger.pc = "extract_transcript"
    /\ \E now \in Clock :
        step_logger' = [StartStepAt(step_logger, "Extract Video Transcript", now)
                            EXCEPT !.pc = "fetch_transcript"]
    /\ UNCHANGED <<config, pc, context, current_step, calls, result, exc, evaluator,
                   extractor, pipeline_config>>

\* the fetch returned or raised; either branch ends the step and appends a
\* record with processing_time=duration
TimedTranscriptEnd ==
    /\ step_logger.pc = "fetch_transcript"
    /\ \E now \in Clock, outcome \in TranscriptOutcomes(config) :
        LET ended == EndStepAt(step_logger, now)
        IN  step_logger' =
                [ended.logger EXCEPT
                    !.pc = "extract_comments",
                    !.context = Some(ExtractTranscriptStep(@[1], outcome)),
                    !.processing_time = Append(@, ended.duration)]
    /\ UNCHANGED <<config, pc, context, current_step, calls, result, exc, evaluator,
                   extractor, pipeline_config>>

TimedCommentsStart ==
    /\ step_logger.pc = "extract_comments"
    /\ \E now \in Clock :
        step_logger' = [StartStepAt(step_logger, "Extract Video Comments", now)
                            EXCEPT !.pc = "fetch_comments"]
    /\ UNCHANGED <<config, pc, context, current_step, calls, result, exc, evaluator,
                   extractor, pipeline_config>>

TimedCommentsEnd ==
    /\ step_logger.pc = "fetch_comments"
    /\ \E now \in Clock, outcome \in CommentsOutcomes(config) :
        LET ended == EndStepAt(step_logger, now)
        IN  step_logger' =
                [ended.logger EXCEPT
                    !.pc = "process_transcript",
                    !.context = Some(ExtractCommentsStep(@[1], outcome)),
                    !.processing_time = Append(@, ended.duration)]
    /\ UNCHANGED <<config, pc, context, current_step, calls, result, exc, evaluator,
                   extractor, pipeline_config>>

LoggerInit ==
    /\ config = [enable_transcript |-> TRUE, enable_comments |-> TRUE,
                 enable_transcript_processing |-> TRUE,
                 enable_comments_processing |-> TRUE,
                 enable_synthesis |-> TRUE, enable_evaluation |-> TRUE,
                 enable_audio_download |-> FALSE, num_selected_questions |-> MaxSelected]
    /\ pc = "extract_video_id"
    /\ context = None
    /\ current_step = None
    /\ calls = <<>>
    /\ result = None
    /\ exc = None
    /\ evaluator = EvaluatorIdle
    /\ extractor = ExtractorIdle
    /\ pipeline_config = NoConfigCall
    /\ step_logger = TimedExtraction

LoggerNext ==
    \/ TimedTranscriptStart
    \/ TimedTranscriptEnd
    \/ TimedCommentsStart
    \/ TimedCommentsEnd

LoggerSpec == LoggerInit /\ [][LoggerNext]_vars

----------------------------------------------------------------------------
(* Properties of the step records *)

\* the step records of the timed extraction
TimedSteps == step_logger.context[1].processing_steps

\* C34: a failed step record has an empty output description and an error
\* message, a successful one has no error message, and the elapsed time of
\* every record is not negative.
C34_WellFormedRecords ==
    ~IsNone(step_logger.context) =>
        \A i \in 1..Len(TimedSteps) :
            /\ ~TimedSteps[i].success =>
                  TimedSteps[i].output_data = "" /\ ~IsNone(TimedSteps[i].error_message)
            /\ TimedSteps[i].success => IsNone(TimedSteps[i].error_message)
            /\ step_logger.processing_time[i] >= 0

\* the order in which analyze_video reaches the steps that leave a record
StepOrder ==
    <<"extract_transcript", "extract_comments", "process_transcript",
      "process_comments", "synthesize_content", "evaluate_critical_thinking">>

StepNames == {StepOrder[k] : k \in 1..Len(StepOrder)}

StepRank(name) == CHOOSE k \in 1..Len(StepOrder) : StepOrder[k] = name

\* C35: in every state the names of the step records are names of StepOrder,
\* in that order, none of them twice.
C35_StepNamesInOrder ==
    /\ \A i \in 1..Len(Steps) : Steps[i].step_name \in StepNames
    /\ \A i, j \in 1..Len(Steps) :
          i < j => StepRank(Steps[i].step_name) < StepRank(Steps[j].step_name)

C35_Witness ==
    /\ pc = "returned"
    /\ [i \in 1..Len(Steps) |-> Steps[i].step_name] = StepOrder

----------------------------------------------------------------------------
(* Properties of the use of the StepLogger *)

\* C36: start_step is called only on an idle logger and opens a step of the
\* run; a step that is under way is left through an end_step that finds it
\* active and leaves the logger idle; and analyze_video ends, by returning or
\* by raising, with an idle logger.
C36_StrictStartEnd ==
    [][/\ (current_step' # None /\ current_step' # current_step) =>
              (current_step = None /\ pc' \in StepUnderWay)
       /\ (pc' \in StepUnderWay /\ pc' # pc) => current_step' # None
       /\ (pc \in StepUnderWay /\ pc' # pc) =>
              (current_step # None /\ current_step' = None)
       /\ pc' \in {"returned", "raised"} => current_step' = None]_vars

\* five steps have started and ended and the sixth is under way
C36_Witness ==
    /\ pc = "evaluate_content"
    /\ current_step = Some("Evaluate Critical Thinking")
    /\ Len(Steps) = 5

----------------------------------------------------------------------------
(* Properties of what the stages write *)

\* the fields of context c that `fields` names
Restricted(c, fields) == [f \in fields |-> c[f]]

\* C37: a step of the processing stage leaves video_metadata, transcript and
\* comments as they were; a step of the synthesis stage leaves transcript,
\* comments and the two summaries as they were; a step of the evaluation
\* stage leaves every field but critical_assessment and processing_steps as
\* it was; and no step changes the configuration.
C37_StagesWriteOwnOutputs ==
    [][/\ config' = config
       /\ StageOfPc(pc) \in 3..5 => (~IsNone(context) /\ ~IsNone(context'))
       /\ StageOfPc(pc) = 3 =>
              Restricted(context'[1], {"video_metadata", "transcript", "comments"})
                = Restricted(context[1], {"video_metadata", "transcript", "comments"})
       /\ StageOfPc(pc) = 4 =>
              Restricted(context'[1], {"transcript", "comments",
                                       "transcript_summary", "comments_summary"})
                = Restricted(context[1], {"transcript", "comments",
                                          "transcript_summary", "comments_summary"})
       /\ StageOfPc(pc) = 5 =>
              Restricted(context'[1], DOMAIN context[1]
                                        \ {"critical_assessment", "processing_steps"})
                = Restricted(context[1], DOMAIN context[1]
                                        \ {"critical_assessment", "processing_steps"})]_vars

\* a run in which each of the three stages has written its outputs
C37_Witness ==
    /\ pc = "returned"
    /\ result[1].transcript_summary = Some("t1t2")
    /\ result[1].comments_summary = Some("c1c2")
    /\ result[1].compressed_summary = Some("z")
    /\ result[1].critical_assessment # Some(EmptyAssessment)
    /\ Len(result[1].critical_assessment[1].standards) > 0

----------------------------------------------------------------------------
(* Properties of the records of retried calls *)

\* the calls that are reported in a step record
RecordedCalls ==
    {"fetch_transcript", "fetch_comments", "generate_transcript_summary",
     "generate_comments_summary", "compress_content", "evaluate_content"}

\* some attempt of the call returned
SomeAttemptSucceeded(name) ==
    \E i \in 1..Len(calls) : calls[i].name = name /\ ~calls[i].raised

\* C38: whatever number of attempts, 1 to 3, a call took, its stage has
\* appended exactly one step record, which reports success exactly when some
\* attempt returned; a call not made leaves no record.
C38_RetriesInvisible ==
    \A name \in RecordedCalls :
        IF Called(name)
        THEN /\ AttemptCount(name) \in 1..StopAfterAttempt
             /\ StepCount(StepOf(name)) = 1
             /\ (FailedStepCount(StepOf(name)) = 0) <=> SomeAttemptSucceeded(name)
        ELSE StepCount(StepOf(name)) = 0

\* the compression returned at its third attempt and the evaluation used up
\* its three attempts
C38_Witness ==
    /\ AttemptCount("compress_content") = StopAfterAttempt
    /\ SomeAttemptSucceeded("compress_content")
    /\ StepCount("synthesize_content") = 1
    /\ FailedStepCount("synthesize_content") = 0
    /\ AttemptCount("evaluate_content") = StopAfterAttempt
    /\ ~SomeAttemptSucceeded("evaluate_content")
    /\ FailedStepCount("evaluate_critical_thinking") = 1

====
